---------------------------- MODULE Spec2Model ----------------------------
(***************************************************************************)
(* A model of standaloner's dependency tracer (trace.ts): the package      *)
(* registry, the materializer (copyPackageVersion), the cross-package and  *)
(* top-level symlink phases, the manifest rewriter                         *)
(* (applyProductionCondition) and the version comparator                   *)
(* (compareVersions); of the file resolution that feeds it                 *)
(* (traceProjectFiles, processSingleFile and the two resolvers); and of    *)
(* the entry point (standaloner) with the bundler's driver (bundle) and   *)
(* its cleanup; and of the asset relocation plugins (relocatePlugin,      *)
(* assetRelocatorPlugin, getUniqueAssetName).                              *)
(*                                                                         *)
(* Strings that the code parses (version strings) are sequences of         *)
(* one-character strings; strings that the code only joins, measures and   *)
(* compares (names, path segments) are TLA+ strings.  A path below outDir  *)
(* is the sequence of its segments.                                        *)
(***************************************************************************)
EXTENDS Integers, Sequences, FiniteSets, TLC

VARIABLES
    \* ---- version comparator (compareVersions, sort) ----
    vlist,          \* the version strings handed to the comparator / sort
    vout,           \* what the last call returned
    \* ---- manifest rewriter (applyProductionCondition) ----
    exportsObj,     \* the exports value, mutated in place
    exportsIn,      \* the value it had when the call was made
    applied,        \* number of applyProductionCondition calls made on it
    \* ---- materializer (processTracedFiles) ----
    tracedFiles,    \* Record<string, TracedFile>, in insertion order
    env,            \* the environment of the run: outDir's length, I/O that fails
    fs,             \* the output tree: path below outDir -> entry
    pc,             \* position of processTracedFiles
    outcome,        \* the promise processTracedFiles returned
    copyTasks,      \* the copyPackageVersion calls: <<[files, destDir, state, errors]>>
    fileState,      \* per traced file: position/outcome of its copy callback
    symlinkTasks,   \* createDependencySymlinks' Map target -> source, in insertion order
    linkState,      \* per dependency-link task: pending / created / skipped / failed
    topTasks,       \* topLevelSymlinkTasks
    topState,       \* per top-level task: pending / created / skipped / failed
    symlinksMade,   \* fs.symlink calls that succeeded in the current run
    run,            \* 1 for the first processTracedFiles call on this outDir, 2 for the next
    firstTree,      \* the tree the first run left (recorded when a second run starts)
    \* ---- standaloner() and bundle() ----
    sOpts,          \* the options standaloner() was called with, and the machine's cpu count
    sPc,            \* position of standaloner()
    sQueue,         \* p-limit's queue: the entries whose build has not started
    sBuilds,        \* the _bundle calls made: <<[input, state]>>
    sBundle,        \* the promise bundle() returned and what it resolved to
    sTrace,         \* the trace() calls made: <<[input]>>
    \* ---- the batch loop of traceProjectFiles, files counted ----
    batchLen,       \* filesToProcess.length
    batchI,         \* the loop variable i
    batchPc,        \* position of the loop
    inFlight,       \* processSingleFile promises of the awaited Promise.all not yet settled
    issued,         \* issued[f]: how many times processSingleFile was called on file f
    \* ---- traceProjectFiles ----
    fileList,       \* traceResults.fileList, in insertion order
    outDir,         \* the output directory (absolute)
    filesToProcess, \* the file list after the filter
    tI,             \* the loop variable i
    tPc,            \* position of traceProjectFiles
    results,        \* the promises of the awaited Promise.all: Pending or what they resolved to
    tracedFilesMap, \* the map being built, as its values in key insertion order
    \* ---- resolveNodeModulesPackage on its own ----
    resolveArg,     \* the relativePath argument
    resolveOut,     \* what the call returned
    \* ---- bundle() with its cleanup, files on disk ----
    bOptions,       \* the options bundle() was called with, and the machine's cpu count
    bPc,            \* position of bundle()
    bQueue,         \* p-limit's queue: the entries whose build has not started
    bBuilds,        \* the _bundle calls made: <<[input, state, output]>>
    bDisk,          \* the files and directories on disk
    bDeleted,       \* the files unlinked so far
    \* ---- one instance of a relocation plugin ----
    rNames,         \* emittedNames (emittedAssetNames): the Set of names handed out
    rReturned,      \* what the getUniqueAssetName calls returned, in call order
    rMap,           \* emittedAssetMap of relocatePlugin: absolute path -> emitted name
    rTransforms,    \* the transform calls made: <<[refs, state, transformed]>>
    rTasks,         \* the per-reference tasks: <<[transform, path, pc, name]>>
    rEmitted,       \* the emitFile calls made: <<[fileName, path]>>
    aInfo,          \* assetInfoMap of assetRelocatorPlugin: placeholder id -> AssetInfo
    aCounter,       \* placeholderCounter
    aStatements,    \* the statements of the modules after load and transform
    aRefs,          \* placeholderToReferenceId: placeholder id -> [referenceId, type]
    aChunks         \* the renderChunk calls made: <<[fileName, statements, code, final]>>

versVars == <<vlist, vout>>
expVars  == <<exportsObj, exportsIn, applied>>
matVars  == <<tracedFiles, env, fs, pc, outcome, copyTasks, fileState,
              symlinkTasks, linkState, topTasks, topState, symlinksMade, run, firstTree>>
staVars  == <<sOpts, sPc, sQueue, sBuilds, sBundle, sTrace>>
batVars  == <<batchLen, batchI, batchPc, inFlight, issued>>
trcVars  == <<fileList, outDir, filesToProcess, tI, tPc, results, tracedFilesMap>>
resVars  == <<resolveArg, resolveOut>>
bunVars  == <<bOptions, bPc, bQueue, bBuilds, bDisk, bDeleted>>
relVars  == <<rMap, rTransforms, rTasks, rEmitted>>
asrVars  == <<aInfo, aCounter, aStatements, aRefs, aChunks>>
plgVars  == <<rNames, rReturned, relVars, asrVars>>
moreVars == <<resVars, bunVars, plgVars>>
extVars  == <<staVars, batVars, trcVars, moreVars>>
vars     == <<versVars, expVars, matVars, extVars>>

-----------------------------------------------------------------------------
(* Bounds of the model *)

\* most components a generated version's numeric core has
MaxCore == 3
\* deepest nesting of objects in a generated exports value
MaxDepth == 2
\* most keys of one generated exports object
MaxKeys == 2
\* most files of one trace result
MaxFiles == 4
\* most parent edges of one trace result
MaxEdges == 2
\* most environmental deviations (long outDir, failing I/O) of one run
MaxFaults == 1
\* most processTracedFiles calls on one output directory
MaxRuns == 2
\* most entries of options.input
MaxEntries == 3
\* most logical cpus of the machine (cpus().length may be 0)
MaxCpus == 4
\* most files that pass the filter of traceProjectFiles, in the counted batch loop
MaxList == 205
\* most entries of the file list of one trace, in the model of the resolvers
MaxTraceFiles == 3
\* most segments of the path given to resolveNodeModulesPackage on its own
MaxSegments == 4
MaxEarlierFiles == 2
MaxLaterFiles == 3
\* most getUniqueAssetName calls on one set
MaxCalls == 4
\* most static references of one module
MaxRefs == 2
\* most modules one plugin instance transforms
MaxModules == 2
\* most statements of the modules one assetRelocatorPlugin instance loads and transforms
MaxStatements == 3
\* most chunks one build renders
MaxChunks == 2

(* Program constants *)
MAX_PATH_LENGTH == 260
batchSize == 100

-----------------------------------------------------------------------------
(* Generic helpers *)

Max(a, b) == IF a >= b THEN a ELSE b
Min(a, b) == IF a <= b THEN a ELSE b

Range(s) == { s[i] : i \in 1..Len(s) }

RECURSIVE SeqSum(_)
SeqSum(s) == IF s = <<>> THEN 0 ELSE Head(s) + SeqSum(Tail(s))

\* the string made of the characters of cs
RECURSIVE Str(_)
Str(cs) == IF cs = <<>> THEN "" ELSE Head(cs) \o Str(Tail(cs))

-----------------------------------------------------------------------------
(* compareVersions *)

DEFAULT_VERSION == <<"0", ".", "0", ".", "0">>

Digits == <<"0", "1", "2", "3", "4", "5", "6", "7", "8", "9">>

IsDigit(c) == c \in Range(Digits)

DigitVal(c) == (CHOOSE i \in 1..10 : Digits[i] = c) - 1

\* String.prototype.split(sep): the pieces of s between occurrences of sep
RECURSIVE Split(_, _)
Split(s, sep) ==
    IF \A i \in 1..Len(s) : s[i] # sep
    THEN <<s>>
    ELSE LET k == CHOOSE i \in 1..Len(s) :
                      s[i] = sep /\ \A j \in 1..(i - 1) : s[j] # sep
         IN  <<SubSeq(s, 1, k - 1)>> \o Split(SubSeq(s, k + 1, Len(s)), sep)

\* parseInt(n, 10) of a string without sign or blanks: the number its leading
\* digits spell, NaN when it starts with no digit
RECURSIVE DigitsValue(_, _)
DigitsValue(s, acc) ==
    IF s = <<>> \/ ~IsDigit(Head(s)) THEN acc
    ELSE DigitsValue(Tail(s), 10 * acc + DigitVal(Head(s)))

parseInt(s) ==
    IF s = <<>> \/ ~IsDigit(Head(s)) THEN [nan |-> TRUE, n |-> 0]
    ELSE [nan |-> FALSE, n |-> DigitsValue(s, 0)]

\* a mutant of parsePart: only the first digit is read
parsePartFirstDigit(s) ==
    IF s = <<>> \/ ~IsDigit(Head(s)) THEN 0 ELSE DigitVal(Head(s))

\* parsePart: parseInt(n, 10) || 0
parsePart(s) == LET r == parseInt(s) IN IF r.nan \/ r.n = 0 THEN 0 ELSE r.n

\* v.split('-')[0].split('.').map(parsePart)
VersionParts(v) ==
    LET core == Split(Split(v, "-")[1], ".")
    IN  [i \in 1..Len(core) |-> parsePart(core[i])]

\* p[i] || 0
PartAt(p, i) == IF i <= Len(p) THEN p[i] ELSE 0

RECURSIVE CompareFrom(_, _, _)
CompareFrom(p1, p2, i) ==
    IF i > Max(Len(p1), Len(p2)) THEN 0
    ELSE IF PartAt(p1, i) # PartAt(p2, i) THEN PartAt(p2, i) - PartAt(p1, i)
    ELSE CompareFrom(p1, p2, i + 1)

\* a mutant of compareVersions: ascending (num1 - num2)
compareVersionsAsc(v1, v2) == CompareFrom(VersionParts(v2), VersionParts(v1), 1)

compareVersions(v1, v2) == CompareFrom(VersionParts(v1), VersionParts(v2), 1)

\* Array.prototype.sort((e1, e2) => compareVersions(e1[0], e2[0])) on [version, x]
\* entries: a stable sort, e1 stays before e2 unless the comparator is positive
RECURSIVE InsertSorted(_, _)
InsertSorted(sorted, e) ==
    IF sorted = <<>> THEN <<e>>
    ELSE LET l == sorted[Len(sorted)]
         IN  IF compareVersions(l[1], e[1]) <= 0
             THEN sorted \o <<e>>
             ELSE InsertSorted(SubSeq(sorted, 1, Len(sorted) - 1), e) \o <<l>>

RECURSIVE SortEntries(_)
SortEntries(s) ==
    IF s = <<>> THEN <<>>
    ELSE InsertSorted(SortEntries(SubSeq(s, 1, Len(s) - 1)), s[Len(s)])

-----------------------------------------------------------------------------
(* applyProductionCondition *)

\* JSON values of an exports field.  An object is a function from its keys.
JStr(x)  == [t |-> "str", s |-> x]
JNull    == [t |-> "null"]
JObj(m)  == [t |-> "obj", m |-> m]
\* a field that is absent (exports of a manifest without one)
JUndef   == [t |-> "undef"]

Without(m, k) == [x \in (DOMAIN m) \ {k} |-> m[x]]

\* Object.assign(target, source): source's keys win
Assign(m, src) == [x \in (DOMAIN m) \cup (DOMAIN src) |->
                      IF x \in DOMAIN src THEN src[x] ELSE m[x]]

\* the level after lines 612-630: the production key handled
\* a mutant: the string case keeps the sibling keys
ProductionLevelKeepSiblings(m) ==
    IF "production" \in DOMAIN m /\ m["production"].t # "null"
    THEN LET prodExportsValue == m["production"]
             rest == Without(m, "production")
         IN  IF prodExportsValue.t = "str"
             THEN Assign(rest, "." :> prodExportsValue)
             ELSE IF prodExportsValue.t = "obj"
             THEN Assign(rest, prodExportsValue.m)
             ELSE rest
    ELSE m

\* a mutant: the object case replaces the level instead of merging into it
ProductionLevelReplace(m) ==
    IF "production" \in DOMAIN m /\ m["production"].t # "null"
    THEN LET prodExportsValue == m["production"]
             rest == Without(m, "production")
         IN  IF prodExportsValue.t = "str"
             THEN "." :> prodExportsValue
             ELSE IF prodExportsValue.t = "obj"
             THEN prodExportsValue.m
             ELSE rest
    ELSE m

ProductionLevel(m) ==
    IF "production" \in DOMAIN m /\ m["production"].t # "null"
    THEN LET prodExportsValue == m["production"]
             rest == Without(m, "production")
         IN  IF prodExportsValue.t = "str"
             THEN "." :> prodExportsValue
             ELSE IF prodExportsValue.t = "obj"
             THEN Assign(rest, prodExportsValue.m)
             ELSE rest
    ELSE m

\* applyProductionCondition(exports): the value the object has when the call
\* returns (the call mutates it in place and returns nothing)
RECURSIVE applyProductionCondition(_)
applyProductionCondition(e) ==
    IF e.t # "obj" THEN e
    ELSE LET m == ProductionLevel(e.m)
         IN  JObj([k \in DOMAIN m |->
                      IF m[k].t = "obj" THEN applyProductionCondition(m[k]) ELSE m[k]])

-----------------------------------------------------------------------------
(* Paths and the output tree *)

Front(s) == SubSeq(s, 1, Len(s) - 1)
Last(s)  == s[Len(s)]

IsPrefix(p, q) == Len(p) <= Len(q) /\ SubSeq(q, 1, Len(p)) = p

\* path.join(outDir, nodeModulesDir) and path.join(nodeModulesPath, versionsDir),
\* as paths below outDir
nodeModulesPath == <<"node_modules">>
versionsPath    == nodeModulesPath \o <<".versions">>

\* a package name is the sequence of its "/"-separated pieces: <<"B">>, <<"@s", "c">>
\* path.join(nodeModulesPath, name)
TopLevelDir(name) == nodeModulesPath \o name

\* a mutant of VersionDir: the version is left out of the directory name
VersionDirNoVersion(name, version) == versionsPath \o name

\* path.join(versionsPath, `${name}@${version}`)
VersionDir(name, version) ==
    versionsPath \o Front(name) \o << Last(name) \o "@" \o Str(version) >>

\* .length of the absolute path of a path below an outDir of length outDirLen
PathLength(outDirLen, p) == outDirLen + SeqSum([i \in 1..Len(p) |-> 1 + Len(p[i])])

RECURSIVE CommonPrefixLen(_, _)
CommonPrefixLen(p, q) ==
    IF p = <<>> \/ q = <<>> \/ Head(p) # Head(q) THEN 0
    ELSE 1 + CommonPrefixLen(Tail(p), Tail(q))

\* path.relative(from, to)
Relative(from, to) ==
    LET c == CommonPrefixLen(from, to)
    IN  [i \in 1..(Len(from) - c) |-> ".."] \o SubSeq(to, c + 1, Len(to))

\* path.resolve(base, rel): ".." segments applied
RECURSIVE Normalize(_, _)
Normalize(base, rel) ==
    IF rel = <<>> THEN base
    ELSE IF Head(rel) = ".."
         THEN Normalize(IF base = <<>> THEN base ELSE Front(base), Tail(rel))
         ELSE Normalize(base \o <<Head(rel)>>, Tail(rel))

DirEntry          == [kind |-> "dir"]
FileEntry(src)    == [kind |-> "file", src |-> src]
ManifestEntry(pj) == [kind |-> "manifest", json |-> pj]
LinkEntry(rel)    == [kind |-> "symlink", to |-> rel]

\* the directory a symlink at path p points at
LinkDest(tree, p) == Normalize(Front(p), tree[p].to)

\* existsSync(p): follows a symlink at p
ExistsSync(tree, p) ==
    /\ p \in DOMAIN tree
    /\ tree[p].kind = "symlink" => LinkDest(tree, p) \in DOMAIN tree

\* fs.mkdir(p, { recursive: true })
Mkdirp(tree, p) ==
    [q \in { SubSeq(p, 1, i) : i \in 1..Len(p) } \ DOMAIN tree |-> DirEntry] @@ tree

WriteEntry(tree, p, e) == (p :> e) @@ tree

\* the tree trace() hands to processTracedFiles: mkdir(versionsPath) done
EmptyTree == Mkdirp(<<>>, versionsPath)

-----------------------------------------------------------------------------
(* The package registry and the tasks of processTracedFiles *)

RECURSIVE Dedup(_)
Dedup(s) ==
    IF s = <<>> THEN <<>>
    ELSE LET r == Dedup(Front(s))
         IN  IF Last(s) \in Range(r) THEN r ELSE r \o <<Last(s)>>

RECURSIVE Concat(_)
Concat(ss) == IF ss = <<>> THEN <<>> ELSE Head(ss) \o Concat(Tail(ss))

\* tracedFiles[path]
Lookup(tf, path) == CHOOSE f \in Range(tf) : f.path = path

HasFile(tf, path) == \E f \in Range(tf) : f.path = path

\* Object.keys(packageRegistry): package names in order of first appearance
RegistryNames(tf) == Dedup([i \in 1..Len(tf) |-> tf[i].pkgName])

\* Object.keys(packageRegistry[name]): versions in order of first appearance
RegistryVersions(tf, name) ==
    LET OfName(f) == f.pkgName = name
        fl == SelectSeq(tf, OfName)
    IN  Dedup([i \in 1..Len(fl) |-> fl[i].pkgVersion])

\* a mutant of RegistryFiles: files are bucketed by package name alone
RegistryFilesByName(tf, name, version) ==
    LET InBucket(f) == f.pkgName = name
        fl == SelectSeq(tf, InBucket)
    IN  [i \in 1..Len(fl) |-> fl[i].path]

\* packageRegistry[name][version]: the paths of the bucket, in insertion order
RegistryFiles(tf, name, version) ==
    LET InBucket(f) == f.pkgName = name /\ f.pkgVersion = version
        fl == SelectSeq(tf, InBucket)
    IN  [i \in 1..Len(fl) |-> fl[i].path]

\* Object.entries(versions)
VersionEntries(tf, name) ==
    LET vs == RegistryVersions(tf, name)
    IN  [i \in 1..Len(vs) |-> <<vs[i], RegistryFiles(tf, name, vs[i])>>]

\* multiVersionPackages[name] is set
IsMultiVersion(tf, name) == Len(RegistryVersions(tf, name)) > 1

\* the destination directory of package `name` at `version` (lines 393, 405, 529-531)
PackageOutputDir(tf, name, version) ==
    IF IsMultiVersion(tf, name) THEN VersionDir(name, version) ELSE TopLevelDir(name)

NewTask(files, destDir) ==
    [files |-> files, destDir |-> destDir, state |-> "mkdir", errors |-> {}, wrote |-> FALSE]

\* a mutant of TasksOfPackage: the newest version is copied to the top level too
TasksOfPackageCopyNewest(tf, name) ==
    LET entries == VersionEntries(tf, name)
    IN  IF Len(entries) = 1
        THEN << NewTask(entries[1][2], TopLevelDir(name)) >>
        ELSE LET sortedVersions == SortEntries(entries)
             IN  [i \in 1..Len(sortedVersions) |->
                    NewTask(sortedVersions[i][2], VersionDir(name, sortedVersions[i][1]))]
                 \o << NewTask(sortedVersions[1][2], TopLevelDir(name)) >>

\* the copyPackageVersion calls pushed for one package (lines 387-407)
TasksOfPackage(tf, name) ==
    LET entries == VersionEntries(tf, name)
    IN  IF Len(entries) = 1
        THEN << NewTask(entries[1][2], TopLevelDir(name)) >>
        ELSE LET sortedVersions == SortEntries(entries)
             IN  [i \in 1..Len(sortedVersions) |->
                    NewTask(sortedVersions[i][2], VersionDir(name, sortedVersions[i][1]))]

BuildCopyTasks(tf) ==
    LET names == RegistryNames(tf)
    IN  Concat([i \in 1..Len(names) |-> TasksOfPackage(tf, names[i])])

\* topLevelSymlinkTasks (lines 409-414)
BuildTopTasks(tf) ==
    LET names == RegistryNames(tf)
        Multi(n) == IsMultiVersion(tf, n)
        multi == SelectSeq(names, Multi)
    IN  [i \in 1..Len(multi) |->
           [source |-> VersionDir(multi[i], SortEntries(VersionEntries(tf, multi[i]))[1][1]),
            target |-> TopLevelDir(multi[i])]]

\* every (file, parentPath) pair, in the order lines 515-517 visit them
ParentEdges(tf) ==
    Concat([i \in 1..Len(tf) |->
              [j \in 1..Len(tf[i].parents) |-> [file |-> tf[i], parentPath |-> tf[i].parents[j]]]])

\* the condition of lines 523-527
NeedsLink(tf, edge) ==
    /\ IsMultiVersion(tf, edge.file.pkgName)
    /\ HasFile(tf, edge.parentPath)
    /\ Lookup(tf, edge.parentPath).pkgName # edge.file.pkgName

\* lines 529-535
LinkTarget(tf, edge) ==
    LET parentFile == Lookup(tf, edge.parentPath)
    IN  PackageOutputDir(tf, parentFile.pkgName, parentFile.pkgVersion)
            \o <<"node_modules">> \o edge.file.pkgName

\* line 539
LinkSource(tf, edge) == VersionDir(edge.file.pkgName, edge.file.pkgVersion)

\* a mutant of MapSet: the first source set for a target is kept
MapSetKeepFirst(tasks, target, source) ==
    IF \E i \in 1..Len(tasks) : tasks[i].target = target
    THEN tasks
    ELSE tasks \o << [target |-> target, source |-> source] >>

\* Map.prototype.set(target, source): a new key goes last, an old key keeps its place
MapSet(tasks, target, source) ==
    IF \E i \in 1..Len(tasks) : tasks[i].target = target
    THEN [i \in 1..Len(tasks) |->
            IF tasks[i].target = target THEN [target |-> target, source |-> source]
            ELSE tasks[i]]
    ELSE tasks \o << [target |-> target, source |-> source] >>

RECURSIVE AddLinkTasks(_, _, _)
AddLinkTasks(tf, edges, tasks) ==
    IF edges = <<>> THEN tasks
    ELSE AddLinkTasks(tf, Tail(edges),
            IF NeedsLink(tf, Head(edges))
            THEN MapSet(tasks, LinkTarget(tf, Head(edges)), LinkSource(tf, Head(edges)))
            ELSE tasks)

\* symlinkTasks after the loop of lines 515-545
BuildSymlinkTasks(tf) == AddLinkTasks(tf, ParentEdges(tf), <<>>)

-----------------------------------------------------------------------------
(* copyPackageVersion and createSymlink *)

\* path.join(destPackageDir, fileMeta.subpath)
DestPath(destDir, file) == destDir \o file.subpath

\* a mutant of TooLong: no length guard
NeverTooLong(e, p) == FALSE

\* x.length > MAX_PATH_LENGTH for the absolute path of p
TooLong(e, p) == PathLength(e.outDirLen, p) > MAX_PATH_LENGTH

\* the first, synchronous part of a file's copy callback (lines 455-466)
LaunchCopy(tf, e, destDir, path) ==
    IF TooLong(e, DestPath(destDir, Lookup(tf, path))) THEN "skipped" ELSE "copying"

\* a mutant of createSymlink: an existing entry at target is replaced
createSymlinkClobber(tree, e, source, target) ==
    IF TooLong(e, target) THEN [tree |-> tree, result |-> "failed"]
    ELSE LET made == Mkdirp(tree, Front(target))
         IN  IF e.symlinkFails
             THEN [tree |-> made, result |-> "failed"]
             ELSE [tree |-> WriteEntry(made, target, LinkEntry(Relative(Front(target), source))),
                   result |-> "created"]

\* createSymlink(source, target): the tree it leaves and how it ended
\* ("failed": it threw; "skipped": target existed; "created": fs.symlink succeeded)
createSymlink(tree, e, source, target) ==
    IF TooLong(e, target) THEN [tree |-> tree, result |-> "failed"]
    ELSE LET made == Mkdirp(tree, Front(target))
         IN  IF ExistsSync(made, target)
             THEN [tree |-> made, result |-> "skipped"]
             ELSE IF e.symlinkFails \/ target \in DOMAIN made
             THEN [tree |-> made, result |-> "failed"]
             ELSE [tree |-> WriteEntry(made, target, LinkEntry(Relative(Front(target), source))),
                   result |-> "created"]

\* finalPkgJson of lines 487-488
FinalPkgJson(pj) == [pj EXCEPT !.exports = applyProductionCondition(pj.exports)]

\* a mutant of Settled: the copies are not awaited
SettledOrCopying(st) == st # "idle"

\* the callback of a file has returned (its promise has settled)
Settled(st) == st \in {"copied", "skipped", "failed"}

TaskOf(tasks, path) == CHOOSE i \in 1..Len(tasks) : path \in Range(tasks[i].files)

-----------------------------------------------------------------------------
(* Inputs of the materializer *)

\* the exports values of the packages of the pool
ExportsDotProduction ==
    JObj("." :> JObj(("production" :> JStr("./prod.js")) @@ ("default" :> JStr("./dev.js"))))
ExportsProductionObject ==
    JObj(("production" :> JObj("import" :> JStr("./p.mjs"))) @@ ("require" :> JStr("./d.cjs")))
ExportsNestedProduction ==
    JObj("production" :> JObj("production" :> JStr("./x.js")))

PoolFile(path, name, version, subpath, exports) ==
    [path |-> path, pkgName |-> name, pkgVersion |-> version, subpath |-> subpath,
     packageJson |-> [name |-> name, version |-> version, exports |-> exports]]

\* the files a trace result is drawn from: package B in three versions, its
\* consumers A (installed twice at 1.0.0, once at 2.0.0) and @s/c, whose own
\* package.json is among the traced files
Pool == <<
    PoolFile("/app/node_modules/A/index.js", <<"A">>, <<"1", ".", "0", ".", "0">>,
             <<"index.js">>, ExportsDotProduction),
    PoolFile("/app/node_modules/A/node_modules/B/index.js", <<"B">>, <<"1", ".", "2", ".", "0">>,
             <<"index.js">>, ExportsProductionObject),
    PoolFile("/app/node_modules/@s/c/lib/main.js", <<"@s", "c">>, <<"1", ".", "0", ".", "0">>,
             <<"lib", "main.js">>, JUndef),
    PoolFile("/app/node_modules/B/index.js", <<"B">>, <<"1", ".", "1", "0", ".", "0">>,
             <<"index.js">>, ExportsNestedProduction),
    PoolFile("/app/node_modules/X/node_modules/A/lib.js", <<"A">>, <<"1", ".", "0", ".", "0">>,
             <<"lib.js">>, ExportsDotProduction),
    PoolFile("/app/node_modules/Y/node_modules/A/index.js", <<"A">>, <<"2", ".", "0", ".", "0">>,
             <<"index.js">>, JStr("./index.js")),
    PoolFile("/app/node_modules/B3/node_modules/B/extra.js", <<"B">>, <<"1", ".", "2", ".", "3">>,
             <<"extra.js">>, JUndef),
    PoolFile("/app/node_modules/@s/c/package.json", <<"@s", "c">>, <<"1", ".", "0", ".", "0">>,
             <<"package.json">>, JUndef)
>>

\* the entry file: a parent that is no traced file (reason "initial" is filtered out)
EntryPath == "/app/dist/index.mjs"

Dependency == <<"B">>

RECURSIVE SortedSeq(_)
SortedSeq(S) ==
    IF S = {} THEN <<>>
    ELSE LET m == CHOOSE x \in S : \A y \in S : x <= y
         IN  <<m>> \o SortedSeq(S \ {m})

\* the parent edges <<parent, file>> (pool indices) a trace result over the files
\* idx may have: a consumer's file requiring a file of the dependency, and a file
\* requiring a later file of its own package
CandidateEdges(idx) ==
    { e \in idx \X idx :
        /\ e[1] # e[2]
        /\ \/ Pool[e[2]].pkgName = Dependency /\ Pool[e[1]].pkgName # Dependency
           \/ Pool[e[1]].pkgName = Pool[e[2]].pkgName /\ e[1] < e[2] }

\* a file that no traced file requires was required by the entry file
TraceResult(idx, edges) ==
    LET order == SortedSeq(idx)
    IN  [k \in 1..Len(order) |->
           LET ps == SortedSeq({ e[1] : e \in { x \in edges : x[2] = order[k] } })
           IN  [path        |-> Pool[order[k]].path,
                subpath     |-> Pool[order[k]].subpath,
                parents     |-> IF ps = <<>> THEN <<EntryPath>>
                                ELSE [j \in 1..Len(ps) |-> Pool[ps[j]].path],
                pkgName     |-> Pool[order[k]].pkgName,
                pkgVersion  |-> Pool[order[k]].pkgVersion,
                packageJson |-> Pool[order[k]].packageJson]]

BoundedSubsets(S, n) == { T \in SUBSET S : Cardinality(T) <= n }

TraceResults ==
    UNION { { TraceResult(idx, edges) : edges \in BoundedSubsets(CandidateEdges(idx), MaxEdges) } :
              idx \in BoundedSubsets(1..Len(Pool), MaxFiles) \ {{}} }

\* lengths of outDir's absolute path: short; long enough that nested link targets,
\* .versions copies and node_modules/A/index.js (but not node_modules/A/lib.js) pass
\* MAX_PATH_LENGTH; long enough that node_modules/<name> does
OutDirLens == {20, 237, 250}

ShortOutDir == CHOOSE n \in OutDirLens : \A m \in OutDirLens : n <= m

Deviations(e) ==
    (IF e.outDirLen = ShortOutDir THEN 0 ELSE 1) + Cardinality(e.unreadable)
        + (IF e.symlinkFails THEN 1 ELSE 0) + (IF e.writeFails THEN 1 ELSE 0)

\* environments: the length of outDir, the source files fs.copyFile fails on,
\* whether fs.symlink fails, whether fs.writeFile of a package.json fails.
\* Deviations count against the size of the run: a trace result of MaxFiles files
\* is run in the plain environment only.
Envs(tf) ==
    { e \in [outDirLen : OutDirLens,
             unreadable : SUBSET { tf[i].path : i \in 1..Len(tf) },
             symlinkFails : BOOLEAN,
             writeFails : BOOLEAN] :
        /\ Deviations(e) <= MaxFaults
        /\ Len(tf) + Deviations(e) <= MaxFiles }

-----------------------------------------------------------------------------
(* processTracedFiles *)

staIdle  ==
    /\ sOpts = <<>> /\ sPc = "idle" /\ sQueue = <<>> /\ sBuilds = <<>>
    /\ sBundle = [state |-> "none"] /\ sTrace = <<>>
batIdle  == batchLen = 0 /\ batchI = 0 /\ batchPc = "idle" /\ inFlight = 0 /\ issued = <<>>
trcIdle  ==
    /\ fileList = <<>> /\ outDir = <<>> /\ filesToProcess = <<>> /\ tI = 0 /\ tPc = "idle"
    /\ results = <<>> /\ tracedFilesMap = <<>>
resIdle  == resolveArg = <<>> /\ resolveOut = [t |-> "none"]
bunIdle  ==
    /\ bOptions = <<>> /\ bPc = "idle" /\ bQueue = <<>> /\ bBuilds = <<>>
    /\ bDisk = <<>> /\ bDeleted = {}
relIdle  == rMap = <<>> /\ rTransforms = <<>> /\ rTasks = <<>> /\ rEmitted = <<>>
asrIdle  ==
    /\ aInfo = <<>> /\ aCounter = 0 /\ aStatements = <<>> /\ aRefs = <<>> /\ aChunks = <<>>
plgIdle  == rNames = {} /\ rReturned = <<>> /\ relIdle /\ asrIdle
moreIdle == resIdle /\ bunIdle /\ plgIdle
extIdle  == staIdle /\ batIdle /\ trcIdle /\ moreIdle
versIdle == vlist = <<>> /\ vout = [op |-> "none"]
expIdle  == exportsObj = JUndef /\ exportsIn = JUndef /\ applied = 0

InitRun(tf, e) ==
    /\ tracedFiles = tf
    /\ env = e
    /\ fs = EmptyTree
    /\ pc = "start"
    /\ outcome = "pending"
    /\ copyTasks = <<>>
    /\ fileState = [f \in { tf[i].path : i \in 1..Len(tf) } |-> "idle"]
    /\ symlinkTasks = <<>>
    /\ linkState = <<>>
    /\ topTasks = <<>>
    /\ topState = <<>>
    /\ symlinksMade = 0
    /\ run = 1
    /\ firstTree = <<>>

Init ==
    /\ versIdle
    /\ expIdle
    /\ extIdle
    /\ \E tf \in TraceResults : \E e \in Envs(tf) : InitRun(tf, e)

\* lines 373-416: the registry is built and every copyPackageVersion call is made;
\* each runs to its first await (fs.mkdir of its destination)
Start ==
    /\ pc = "start"
    /\ pc' = "copy"
    /\ copyTasks' = BuildCopyTasks(tracedFiles)
    /\ topTasks' = BuildTopTasks(tracedFiles)
    /\ UNCHANGED <<tracedFiles, env, fs, outcome, fileState, symlinkTasks, linkState,
                   topState, symlinksMade, run, firstTree, versVars, expVars, extVars>>

\* lines 449-466 of one copyPackageVersion call: the destination exists, every file's
\* copy callback has run to its first await; a file whose destination is too long
\* has recorded its error and returned
TaskMkdir(i) ==
    /\ pc = "copy"
    /\ copyTasks[i].state = "mkdir"
    /\ LET t == copyTasks[i]
           launched == [f \in Range(t.files) |-> LaunchCopy(tracedFiles, env, t.destDir, f)]
       IN  /\ fs' = Mkdirp(fs, t.destDir)
           /\ fileState' = launched @@ fileState
           /\ copyTasks' = [copyTasks EXCEPT ![i].state = "copying",
                               ![i].errors = { f \in Range(t.files) : launched[f] = "skipped" }]
    /\ UNCHANGED <<tracedFiles, env, pc, outcome, symlinkTasks, linkState, topTasks,
                   topState, symlinksMade, run, firstTree, versVars, expVars, extVars>>

\* lines 468-474 for one file: mkdir of the destination's directory and copyFile,
\* or the error recorded when copyFile fails
CopyFile(path) ==
    /\ pc = "copy"
    /\ fileState[path] = "copying"
    /\ LET i == TaskOf(copyTasks, path)
           dest == DestPath(copyTasks[i].destDir, Lookup(tracedFiles, path))
       IN  IF path \in env.unreadable
           THEN /\ fs' = Mkdirp(fs, Front(dest))
                /\ fileState' = [fileState EXCEPT ![path] = "failed"]
                /\ copyTasks' = [copyTasks EXCEPT ![i].errors = @ \cup {path}]
           ELSE /\ fs' = WriteEntry(Mkdirp(fs, Front(dest)), dest, FileEntry(path))
                /\ fileState' = [fileState EXCEPT ![path] = "copied"]
                /\ UNCHANGED copyTasks
    /\ UNCHANGED <<tracedFiles, env, pc, outcome, symlinkTasks, linkState, topTasks,
                   topState, symlinksMade, run, firstTree, versVars, expVars, extVars>>

\* lines 478-497 of one copyPackageVersion call, once all its copies have settled:
\* the exports of the first file's packageJson are rewritten in place and the
\* manifest is written (a failing write is logged)
WriteManifest(i) ==
    /\ pc = "copy"
    /\ copyTasks[i].state = "copying"
    /\ \A f \in Range(copyTasks[i].files) : Settled(fileState[f])
    /\ LET t == copyTasks[i]
           sampleFileMeta == Lookup(tracedFiles, t.files[1])
           finalPkgJson == FinalPkgJson(sampleFileMeta.packageJson)
       IN  /\ tracedFiles' = [k \in 1..Len(tracedFiles) |->
                                IF tracedFiles[k].path = sampleFileMeta.path
                                THEN [tracedFiles[k] EXCEPT !.packageJson = finalPkgJson]
                                ELSE tracedFiles[k]]
           /\ fs' = IF env.writeFails THEN fs
                    ELSE WriteEntry(fs, t.destDir \o <<"package.json">>, ManifestEntry(finalPkgJson))
           /\ copyTasks' = [copyTasks EXCEPT ![i].state = "done", ![i].wrote = ~env.writeFails]
    /\ UNCHANGED <<env, pc, outcome, fileState, symlinkTasks, linkState, topTasks,
                   topState, symlinksMade, run, firstTree, versVars, expVars, extVars>>

\* a mutant of StartDepLinks: Promise.all(copyTasks) is not awaited
StartDepLinksEarly ==
    /\ pc = "copy"
    /\ copyTasks # <<>>
    /\ pc' = "deplinks"
    /\ symlinkTasks' = BuildSymlinkTasks(tracedFiles)
    /\ linkState' = [i \in 1..Len(symlinkTasks') |->
                       IF TooLong(env, symlinkTasks'[i].target) THEN "failed" ELSE "pending"]
    /\ UNCHANGED <<tracedFiles, env, fs, outcome, copyTasks, fileState, topTasks,
                   topState, symlinksMade, run, firstTree, versVars, expVars, extVars>>

\* lines 419-549: every copy task has settled; createDependencySymlinks builds its
\* map and calls createSymlink for every entry; a target that is too long throws
\* at once and its error is recorded
StartDepLinks ==
    /\ pc = "copy"
    /\ \A i \in 1..Len(copyTasks) : copyTasks[i].state = "done"
    /\ pc' = "deplinks"
    /\ symlinkTasks' = BuildSymlinkTasks(tracedFiles)
    /\ linkState' = [i \in 1..Len(symlinkTasks') |->
                       IF TooLong(env, symlinkTasks'[i].target) THEN "failed" ELSE "pending"]
    /\ UNCHANGED <<tracedFiles, env, fs, outcome, copyTasks, fileState, topTasks,
                   topState, symlinksMade, run, firstTree, versVars, expVars, extVars>>

\* lines 549-555 for one entry: createSymlink settles; a throw is caught and recorded
LinkStep(i) ==
    /\ pc = "deplinks"
    /\ linkState[i] = "pending"
    /\ LET r == createSymlink(fs, env, symlinkTasks[i].source, symlinkTasks[i].target)
       IN  /\ fs' = r.tree
           /\ linkState' = [linkState EXCEPT ![i] = r.result]
           /\ symlinksMade' = symlinksMade + (IF r.result = "created" THEN 1 ELSE 0)
    /\ UNCHANGED <<tracedFiles, env, pc, outcome, copyTasks, fileState, symlinkTasks,
                   topTasks, topState, run, firstTree, versVars, expVars, extVars>>

\* line 430: createDependencySymlinks has returned; createSymlink is called for every
\* top-level task; Promise.all rejects as soon as one of the calls has thrown
StartTopLinks ==
    /\ pc = "deplinks"
    /\ \A i \in 1..Len(linkState) : linkState[i] # "pending"
    /\ pc' = "toplinks"
    /\ topState' = [i \in 1..Len(topTasks) |->
                      IF TooLong(env, topTasks[i].target) THEN "failed" ELSE "pending"]
    /\ outcome' = IF \E i \in 1..Len(topTasks) : TooLong(env, topTasks[i].target)
                  THEN "rejected" ELSE outcome
    /\ UNCHANGED <<tracedFiles, env, fs, copyTasks, fileState, symlinkTasks, linkState,
                   topTasks, symlinksMade, run, firstTree, versVars, expVars, extVars>>

\* one top-level createSymlink call settles; nothing catches its throw
TopStep(i) ==
    /\ pc = "toplinks"
    /\ topState[i] = "pending"
    /\ LET r == createSymlink(fs, env, topTasks[i].source, topTasks[i].target)
       IN  /\ fs' = r.tree
           /\ topState' = [topState EXCEPT ![i] = r.result]
           /\ symlinksMade' = symlinksMade + (IF r.result = "created" THEN 1 ELSE 0)
           /\ outcome' = IF r.result = "failed" THEN "rejected" ELSE outcome
    /\ UNCHANGED <<tracedFiles, env, pc, copyTasks, fileState, symlinkTasks, linkState,
                   topTasks, run, firstTree, versVars, expVars, extVars>>

\* every top-level call has settled: processTracedFiles resolves unless it has rejected
Finish ==
    /\ pc = "toplinks"
    /\ \A i \in 1..Len(topState) : topState[i] # "pending"
    /\ pc' = "done"
    /\ outcome' = IF outcome = "pending" THEN "resolved" ELSE outcome
    /\ UNCHANGED <<tracedFiles, env, fs, copyTasks, fileState, symlinkTasks, linkState,
                   topTasks, topState, symlinksMade, run, firstTree, versVars, expVars, extVars>>

Next ==
    \/ Start
    \/ \E i \in 1..Len(copyTasks) : TaskMkdir(i)
    \/ \E path \in DOMAIN fileState : CopyFile(path)
    \/ \E i \in 1..Len(copyTasks) : WriteManifest(i)
    \/ StartDepLinks
    \/ \E i \in 1..Len(linkState) : LinkStep(i)
    \/ StartTopLinks
    \/ \E i \in 1..Len(topState) : TopStep(i)
    \/ Finish

Spec == Init /\ [][Next]_vars

\* processTracedFiles is called again with the same tracedFiles object and the same
\* outDir, once the previous call has settled
Rerun ==
    /\ pc = "done"
    /\ run < MaxRuns
    /\ run' = run + 1
    /\ firstTree' = IF run = 1 THEN fs ELSE firstTree
    /\ pc' = "start"
    /\ outcome' = "pending"
    /\ copyTasks' = <<>>
    /\ fileState' = [f \in DOMAIN fileState |-> "idle"]
    /\ symlinkTasks' = <<>>
    /\ linkState' = <<>>
    /\ topTasks' = <<>>
    /\ topState' = <<>>
    /\ symlinksMade' = 0
    /\ UNCHANGED <<tracedFiles, env, fs, versVars, expVars, extVars>>

NextTwice ==
    \/ Start
    \/ \E i \in 1..Len(copyTasks) : TaskMkdir(i)
    \/ \E path \in DOMAIN fileState : CopyFile(path)
    \/ \E i \in 1..Len(copyTasks) : WriteManifest(i)
    \/ StartDepLinks
    \/ \E i \in 1..Len(linkState) : LinkStep(i)
    \/ StartTopLinks
    \/ \E i \in 1..Len(topState) : TopStep(i)
    \/ Finish
    \/ Rerun

SpecTwice == Init /\ [][NextTwice]_vars

-----------------------------------------------------------------------------
(* An incremental run: trace() is run again on a project that has grown *)

\* the environment without deviations
PlainEnv ==
    [outDirLen |-> ShortOutDir, unreadable |-> {}, symlinkFails |-> FALSE, writeFails |-> FALSE]

Paths(tf) == { tf[i].path : i \in 1..Len(tf) }

\* the first run traces at most MaxEarlierFiles files
InitIncremental ==
    /\ versIdle
    /\ expIdle
    /\ extIdle
    /\ \E tf \in TraceResults : Len(tf) <= MaxEarlierFiles /\ InitRun(tf, PlainEnv)

\* trace() is called again with the same outDir once the previous call has settled:
\* nodeFileTrace yields a new result, which holds the files of the earlier one, and
\* processTracedFiles is called on it (lines 186-193); the output tree is as the
\* earlier run left it
RerunGrown(tf) ==
    /\ pc = "done"
    /\ run < MaxRuns
    /\ Len(tf) <= MaxLaterFiles
    /\ Paths(tracedFiles) \subseteq Paths(tf)
    /\ Paths(tracedFiles) # Paths(tf)
    /\ tracedFiles' = tf
    /\ run' = run + 1
    /\ firstTree' = IF run = 1 THEN fs ELSE firstTree
    /\ pc' = "start"
    /\ outcome' = "pending"
    /\ copyTasks' = <<>>
    /\ fileState' = [f \in Paths(tf) |-> "idle"]
    /\ symlinkTasks' = <<>>
    /\ linkState' = <<>>
    /\ topTasks' = <<>>
    /\ topState' = <<>>
    /\ symlinksMade' = 0
    /\ UNCHANGED <<env, fs, versVars, expVars, extVars>>

NextIncremental ==
    \/ Start
    \/ \E i \in 1..Len(copyTasks) : TaskMkdir(i)
    \/ \E path \in DOMAIN fileState : CopyFile(path)
    \/ \E i \in 1..Len(copyTasks) : WriteManifest(i)
    \/ StartDepLinks
    \/ \E i \in 1..Len(linkState) : LinkStep(i)
    \/ StartTopLinks
    \/ \E i \in 1..Len(topState) : TopStep(i)
    \/ Finish
    \/ \E tf \in TraceResults : RerunGrown(tf)

SpecIncremental == InitIncremental /\ [][NextIncremental]_vars

-----------------------------------------------------------------------------
(* The version comparator on generated version strings *)

\* String(n) of a natural number
RECURSIVE FormatNat(_)
FormatNat(n) == IF n < 10 THEN <<Digits[n + 1]>> ELSE FormatNat(n \div 10) \o <<Digits[(n % 10) + 1]>>

RECURSIVE JoinDots(_)
JoinDots(parts) ==
    IF Len(parts) = 1 THEN parts[1] ELSE parts[1] \o <<".">> \o JoinDots(Tail(parts))

PreReleaseTag == <<"-", "b", "e", "t", "a", ".", "1">>

\* the version string of a numeric core and an optional pre-release suffix
FormatVersion(sv) ==
    JoinDots([i \in 1..Len(sv.core) |-> FormatNat(sv.core[i])])
        \o (IF sv.pre THEN PreReleaseTag ELSE <<>>)

Components == {0, 1, 10}

Cores(n) == UNION { [1..k -> Components] : k \in 1..n }

GeneratedVersions == [core : Cores(MaxCore), pre : BOOLEAN]

\* third elements of the lists that are sorted
ThirdVersions == { [core |-> <<1, 2, 3>>, pre |-> FALSE], [core |-> <<1, 10, 0>>, pre |-> FALSE] }

\* the boundary cases of the comparator: "1.0" and "1.0.0", "2.0.0-beta.1" and "2.0.0"
BoundaryLists ==
    { << [core |-> <<1, 0>>, pre |-> FALSE], [core |-> <<1, 0, 0>>, pre |-> FALSE] >>,
      << [core |-> <<2, 0, 0>>, pre |-> TRUE], [core |-> <<2, 0, 0>>, pre |-> FALSE] >> }

VersionLists ==
    { <<a, b>> : a \in GeneratedVersions, b \in GeneratedVersions }
    \cup BoundaryLists
    \cup { <<a, b, c>> : a \in [core : [1..3 -> Components], pre : {FALSE}],
                         b \in [core : [1..3 -> Components], pre : {FALSE}],
                         c \in ThirdVersions }

matIdle ==
    /\ tracedFiles = <<>> /\ env = <<>> /\ fs = <<>> /\ pc = "idle" /\ outcome = "idle"
    /\ copyTasks = <<>> /\ fileState = <<>> /\ symlinkTasks = <<>> /\ linkState = <<>>
    /\ topTasks = <<>> /\ topState = <<>> /\ symlinksMade = 0 /\ run = 0 /\ firstTree = <<>>

InitVersions ==
    /\ vlist \in VersionLists
    /\ vout = [op |-> "none"]
    /\ expIdle
    /\ matIdle
    /\ extIdle

\* compareVersions(v1, v2) on the first two version strings
Compare ==
    /\ vout.op = "none"
    /\ vout' = [op |-> "compare",
                r |-> compareVersions(FormatVersion(vlist[1]), FormatVersion(vlist[2]))]
    /\ UNCHANGED <<vlist, expVars, matVars, extVars>>

\* versionEntries.sort(([v1], [v2]) => compareVersions(v1, v2)) on the list; the
\* result is given as the positions the entries had in the list
Sort ==
    /\ vout.op = "none"
    /\ LET sorted == SortEntries([i \in 1..Len(vlist) |-> <<FormatVersion(vlist[i]), i>>])
       IN  vout' = [op |-> "sort", r |-> [i \in 1..Len(sorted) |-> sorted[i][2]]]
    /\ UNCHANGED <<vlist, expVars, matVars, extVars>>

NextVersions == Compare \/ Sort

SpecVersions == InitVersions /\ [][NextVersions]_vars

-----------------------------------------------------------------------------
(* The manifest rewriter on generated exports values *)

ExportKeys == {".", "production", "import"}

Leaves == {JStr("./prod.js"), JStr("./dev.js"), JNull}

RECURSIVE ExportsValues(_)
ExportsValues(depth) ==
    IF depth = 0 THEN Leaves
    ELSE LET below == ExportsValues(depth - 1)
         IN  below \cup UNION { { JObj(m) : m \in [ks -> below] } :
                                  ks \in BoundedSubsets(ExportKeys, MaxKeys) }

InitExports ==
    /\ exportsIn \in ExportsValues(MaxDepth)
                        \cup {ExportsDotProduction, ExportsProductionObject, ExportsNestedProduction}
    /\ exportsObj = exportsIn
    /\ applied = 0
    /\ versIdle
    /\ matIdle
    /\ extIdle

\* applyProductionCondition(exports) is called on the object (a first time, and
\* again on the object it left)
Apply ==
    /\ applied < 2
    /\ exportsObj' = applyProductionCondition(exportsObj)
    /\ applied' = applied + 1
    /\ UNCHANGED <<exportsIn, versVars, matVars, extVars>>

NextExports == Apply

SpecExports == InitExports /\ [][NextExports]_vars

-----------------------------------------------------------------------------
(* standaloner() and bundle() *)

\* an entry point: the name rolldown gives its chunk and the path the caller wrote
EntryOf(i) == [name |-> "e" \o ToString(i), path |-> "src/e" \o ToString(i) \o ".ts"]

\* options.input: a string, an array of strings, or an object name -> path
Inputs ==
    {[kind |-> "string", entries |-> <<EntryOf(1)>>]}
        \cup {[kind |-> k, entries |-> [i \in 1..n |-> EntryOf(i)]] :
                 k \in {"array", "object"}, n \in 1..MaxEntries}

\* options.bundle: undefined, true, false, or an object of bundler options
BundleOptionValues ==
    {[kind |-> k, isolated |-> FALSE, dir |-> "undefined"] : k \in {"undefined", "true", "false"}}
        \cup {[kind |-> "object", isolated |-> b, dir |-> d] :
                 b \in BOOLEAN, d \in {"undefined", "/cwd/custom"}}

StandalonerOptions ==
    [input : Inputs, bundle : BundleOptionValues, trace : {"undefined", "true", "false"},
     cleanup : BOOLEAN, cpus : 0..MaxCpus]

\* typeof options.bundle === 'object' ? options.bundle : {}
bundleOptions(options) ==
    IF options.bundle.kind = "object" THEN options.bundle
    ELSE [kind |-> "object", isolated |-> FALSE, dir |-> "undefined"]

\* resolvePaths(options).outDir with no options.outDir: path.join(inputCommonDir, 'dist')
outDirOf(options) == "/cwd/src/dist"

\* resolveInputs(options.input): every input path made absolute
resolveInputs(input) == [i \in 1..Len(input.entries) |-> "/cwd/" \o input.entries[i].path]

\* options.trace ?? true
shouldTrace(options) == options.trace # "false"

\* bundleOptions.output?.dir ?? outDir
bundleOutputDir(options) ==
    IF bundleOptions(options).dir # "undefined" THEN bundleOptions(options).dir
    ELSE outDirOf(options)

ConcurrencyAllCpus(cpuCount) == Max(1, cpuCount)

\* Math.max(1, Math.ceil(cpus().length / 2))
Concurrency(cpuCount) == Max(1, (cpuCount + 1) \div 2)

\* the branch of bundle() that builds every entry on its own
IsolatedBuilds(options) ==
    /\ bundleOptions(options).isolated
    /\ options.input.kind = "object"
    /\ Len(options.input.entries) > 1

\* the inputs of the limit(...) callbacks, in the order of Object.entries
IsolatedInputs(options) ==
    [i \in 1..Len(options.input.entries) |-> <<options.input.entries[i]>>]

\* the chunks a build wrote: one '[name].mjs' per entry, and possibly a chunk
\* shared between the entries of one build
BuildOutputFiles(input, shared) ==
    [i \in 1..Len(input) |-> input[i].name \o ".mjs"]
        \o (IF shared THEN <<"shared-hash.mjs">> ELSE <<>>)

RECURSIVE FlatMapOutput(_)
FlatMapOutput(rs) ==
    IF rs = <<>> THEN <<>>
    ELSE Head(rs).output \o FlatMapOutput(Tail(rs))

\* buildOutput.map(o => path.join(outputDir, o.fileName))
OutFilePaths(buildOutput, outputDir) ==
    [i \in 1..Len(buildOutput) |-> outputDir \o "/" \o buildOutput[i]]

TraceInputAlwaysInputs(bundleOutput, inputPaths) == inputPaths

\* bundleOutput?.outFilePaths ?? inputPaths
TraceInput(bundleOutput, inputPaths) ==
    IF bundleOutput.state = "resolved" THEN bundleOutput.outFilePaths ELSE inputPaths

RunningBuilds == { k \in 1..Len(sBuilds) : sBuilds[k].state = "running" }

\* standaloner up to the call of bundle(), and bundle() up to its first await
CallBundle ==
    /\ sPc = "start"
    /\ IF sOpts.bundle.kind = "false"
       THEN /\ sBundle' = [state |-> "null"]
            /\ sPc' = "bundled"
            /\ UNCHANGED <<sQueue, sBuilds>>
       ELSE /\ sBundle' = [state |-> "pending"]
            /\ sPc' = "bundle"
            /\ IF IsolatedBuilds(sOpts)
               THEN /\ sQueue' = IsolatedInputs(sOpts)
                    /\ UNCHANGED sBuilds
               ELSE /\ sBuilds' = <<[input |-> sOpts.input.entries, state |-> "running",
                                     output |-> <<>>]>>
                    /\ UNCHANGED sQueue
    /\ UNCHANGED <<sOpts, sTrace, versVars, expVars, matVars, batVars, trcVars, moreVars>>

\* p-limit takes the next callback off its queue when a slot is free
StartBuild ==
    /\ sQueue # <<>>
    /\ Cardinality(RunningBuilds) < Concurrency(sOpts.cpus)
    /\ sBuilds' = Append(sBuilds, [input |-> Head(sQueue), state |-> "running",
                                   output |-> <<>>])
    /\ sQueue' = Tail(sQueue)
    /\ UNCHANGED <<sOpts, sPc, sBundle, sTrace, versVars, expVars, matVars, batVars, trcVars, moreVars>>

\* a _bundle call settles: rolldown's build() resolved with its chunks or threw
FinishBuild(k, ok, shared) ==
    /\ k \in RunningBuilds
    /\ shared => Len(sBuilds[k].input) > 1
    /\ sBuilds' = [sBuilds EXCEPT ![k] =
                      IF ok THEN [@ EXCEPT !.state = "done",
                                           !.output = BuildOutputFiles(sBuilds[k].input, shared)]
                      ELSE [@ EXCEPT !.state = "failed"]]
    /\ UNCHANGED <<sOpts, sPc, sQueue, sBundle, sTrace, versVars, expVars, matVars, batVars, trcVars, moreVars>>

\* every build resolved: bundle() collects the outputs, cleans up and returns
BundleResolve ==
    /\ sPc = "bundle"
    /\ sQueue = <<>>
    /\ \A k \in 1..Len(sBuilds) : sBuilds[k].state = "done"
    /\ LET buildOutput == FlatMapOutput(sBuilds)
       IN  sBundle' = [state |-> "resolved", output |-> buildOutput,
                       outFilePaths |-> OutFilePaths(buildOutput, bundleOutputDir(sOpts)),
                       cleaned |-> sOpts.cleanup]
    /\ sPc' = "bundled"
    /\ UNCHANGED <<sOpts, sQueue, sBuilds, sTrace, versVars, expVars, matVars, batVars, trcVars, moreVars>>

\* a build threw: Promise.all (or the awaited _bundle) rejects, and so does
\* bundle() and standaloner(); callbacks still queued in p-limit run anyway
BundleReject ==
    /\ sPc = "bundle"
    /\ \E k \in 1..Len(sBuilds) : sBuilds[k].state = "failed"
    /\ sBundle' = [state |-> "rejected"]
    /\ sPc' = "rejected"
    /\ UNCHANGED <<sOpts, sQueue, sBuilds, sTrace, versVars, expVars, matVars, batVars, trcVars, moreVars>>

\* standaloner after the bundle step
CallTrace ==
    /\ sPc = "bundled"
    /\ IF shouldTrace(sOpts)
       THEN /\ sTrace' = Append(sTrace,
                                [input |-> TraceInput(sBundle, resolveInputs(sOpts.input)),
                                 outDir |-> outDirOf(sOpts)])
            /\ sPc' = "trace"
       ELSE /\ sPc' = "done"
            /\ UNCHANGED sTrace
    /\ UNCHANGED <<sOpts, sQueue, sBuilds, sBundle, versVars, expVars, matVars, batVars, trcVars, moreVars>>

\* the awaited trace() settles
TraceSettle(ok) ==
    /\ sPc = "trace"
    /\ sPc' = IF ok THEN "done" ELSE "rejected"
    /\ UNCHANGED <<sOpts, sQueue, sBuilds, sBundle, sTrace, versVars, expVars, matVars, batVars, trcVars, moreVars>>

InitStandaloner ==
    /\ versIdle
    /\ expIdle
    /\ matIdle
    /\ sOpts \in StandalonerOptions
    /\ sPc = "start"
    /\ sQueue = <<>>
    /\ sBuilds = <<>>
    /\ sBundle = [state |-> "none"]
    /\ sTrace = <<>>
    /\ batIdle
    /\ trcIdle
    /\ moreIdle

NextStandaloner ==
    \/ CallBundle
    \/ StartBuild
    \/ \E k \in 1..MaxEntries, ok \in BOOLEAN, shared \in BOOLEAN : FinishBuild(k, ok, shared)
    \/ BundleResolve
    \/ BundleReject
    \/ CallTrace
    \/ \E ok \in BOOLEAN : TraceSettle(ok)

SpecStandaloner == InitStandaloner /\ [][NextStandaloner]_vars

-----------------------------------------------------------------------------
(* The batch loop of traceProjectFiles, with the files counted *)

BatchRest(len, i) == (i + 1)..len

\* filesToProcess.slice(i, i + batchSize), as the set of its 1-based positions
Batch(len, i) == (i + 1)..Min(i + batchSize, len)

\* for (...; i < filesToProcess.length; ...): batch.map(file => processSingleFile(...))
IssueBatch ==
    /\ batchPc = "loop"
    /\ batchI < batchLen
    /\ issued' = [f \in 1..batchLen |->
                     IF f \in Batch(batchLen, batchI) THEN issued[f] + 1 ELSE issued[f]]
    /\ inFlight' = inFlight + Cardinality(Batch(batchLen, batchI))
    /\ batchPc' = "await"
    /\ UNCHANGED <<batchLen, batchI, versVars, expVars, matVars, staVars, trcVars, moreVars>>

\* one processSingleFile promise settles (it never rejects: its catch returns null)
SettleOne ==
    /\ inFlight > 0
    /\ inFlight' = inFlight - 1
    /\ UNCHANGED <<batchLen, batchI, batchPc, issued, versVars, expVars, matVars, staVars, trcVars, moreVars>>

\* the awaited Promise.all resolves, the results go into the map, i += batchSize
CollectBatch ==
    /\ batchPc = "await"
    /\ inFlight = 0
    /\ batchI' = batchI + batchSize
    /\ batchPc' = "loop"
    /\ UNCHANGED <<batchLen, inFlight, issued, versVars, expVars, matVars, staVars, trcVars, moreVars>>

\* the loop condition fails: traceProjectFiles returns the map
ReturnMap ==
    /\ batchPc = "loop"
    /\ batchI >= batchLen
    /\ batchPc' = "done"
    /\ UNCHANGED <<batchLen, batchI, inFlight, issued, versVars, expVars, matVars, staVars, trcVars, moreVars>>

InitBatch ==
    /\ versIdle
    /\ expIdle
    /\ matIdle
    /\ staIdle
    /\ batchLen \in 0..MaxList
    /\ batchI = 0
    /\ batchPc = "loop"
    /\ inFlight = 0
    /\ issued = [f \in 1..batchLen |-> 0]
    /\ trcIdle
    /\ moreIdle

NextBatch == IssueBatch \/ SettleOne \/ CollectBatch \/ ReturnMap

SpecBatch == InitBatch /\ [][NextBatch]_vars

-----------------------------------------------------------------------------
(* traceProjectFiles, processSingleFile and the two resolvers.  Paths are       *)
(* strings of characters here, because the code tests them with startsWith,    *)
(* includes and a regular expression.                                          *)

NodeModulesChars == <<"n", "o", "d", "e", "_", "m", "o", "d", "u", "l", "e", "s">>

\* String.prototype.startsWith
StartsWith(s, p) == Len(p) <= Len(s) /\ SubSeq(s, 1, Len(p)) = p

\* the positions at which p occurs in s
Occurrences(s, p) == { k \in 1..(Len(s) - Len(p) + 1) : SubSeq(s, k, k + Len(p) - 1) = p }

\* String.prototype.includes
Includes(s, p) == p = <<>> \/ Occurrences(s, p) # {}

\* Array.prototype.join('/')
RECURSIVE JoinSlash(_)
JoinSlash(segs) ==
    IF segs = <<>> THEN <<>>
    ELSE IF Len(segs) = 1 THEN Head(segs)
    ELSE Head(segs) \o <<"/">> \o JoinSlash(Tail(segs))

\* the segments of an absolute path
Segments(abs) == Tail(Split(abs, "/"))

\* path.join(a, b) of an absolute a and a relative b, both normalized
PathJoin(a, b) == IF b = <<>> THEN a ELSE a \o <<"/">> \o b

\* path.dirname of an absolute path
PathDirname(abs) == <<"/">> \o JoinSlash(Front(Segments(abs)))

\* path.relative(from, to) of two absolute paths
PathRelative(from, to) ==
    LET f == Segments(from)
        t == Segments(to)
        c == CommonPrefixLen(f, t)
    IN  JoinSlash([i \in 1..(Len(f) - c) |-> <<".", ".">>] \o SubSeq(t, c + 1, Len(t)))

\* path.sep
PathSep == "/"

\* toPosixPath: filePath.split(path.sep).join('/')
toPosixPath(filePath) == JoinSlash(Split(filePath, PathSep))

\* ---- the project on disk ----

baseDir == <<"/", "r", "/", "w">>

\* node_modules/l is a symlink to the workspace package q
SymlinkedDir == PathJoin(baseDir, NodeModulesChars \o <<"/", "l">>)
SymlinkDest  == PathJoin(baseDir, <<"q">>)

\* fs.realpath
Realpath(abs) ==
    IF abs = SymlinkedDir \/ StartsWith(abs, SymlinkedDir \o <<"/">>)
    THEN SymlinkDest \o SubSeq(abs, Len(SymlinkedDir) + 1, Len(abs))
    ELSE abs

\* a manifest: name and version, <<>> for a field that is absent
PkgJson(name, version) == [name |-> name, version |-> version]

Version100 == <<"1", ".", "0", ".", "0">>
Version200 == <<"2", ".", "0", ".", "0">>

\* the package.json files of the project, by directory
PackageJsons ==
    (baseDir :> PkgJson(<<"a", "p", "p">>, Version100))
    @@ (PathJoin(baseDir, <<"p">>) :> PkgJson(<<"w", "p">>, Version200))
    @@ (PathJoin(baseDir, <<"u">>) :> PkgJson(<<>>, Version100))
    @@ (PathJoin(baseDir, <<"q">>) :> PkgJson(<<"w", "q">>, <<>>))
    @@ (PathJoin(baseDir, NodeModulesChars \o <<"/", "m">>) :> PkgJson(<<"m">>, Version100))

\* fs.readFile + JSON.parse of dir/package.json: <<>> when there is none
ReadPkgJson(dir) ==
    IF Realpath(dir) \in DOMAIN PackageJsons THEN <<PackageJsons[Realpath(dir)]>> ELSE <<>>

\* one entry of nodeFileTrace's result: the listed path, its reason's type and
\* parents, and what fs.stat finds at the path
NftFile(file, type, parents, stat) ==
    [file |-> file, type |-> type, parents |-> parents, stat |-> stat]

\* the paths nodeFileTrace may list, relative to baseDir
ListedFile ==
    [e    |-> <<"e">>,
     a    |-> <<"a">>,
     px   |-> <<"p", "/", "x">>,
     uy   |-> <<"u", "/", "y">>,
     qy   |-> <<"q", "/", "y">>,
     ly   |-> NodeModulesChars \o <<"/", "l", "/", "y">>,
     l    |-> NodeModulesChars \o <<"/", "l">>,
     mi   |-> NodeModulesChars \o <<"/", "m", "/", "i">>,
     do   |-> <<"d", "/", "o">>,
     dxz  |-> <<"d", "x", "/", "z">>,
     usrk |-> <<"u", "s", "r", "/", "k">>]

NftFiles ==
    << NftFile(ListedFile.e, {"initial"}, {}, "file"),
       NftFile(ListedFile.a, {"dependency"}, {ListedFile.e}, "file"),
       NftFile(ListedFile.px, {"dependency"}, {ListedFile.a}, "file"),
       NftFile(ListedFile.uy, {"dependency"}, {ListedFile.a}, "file"),
       NftFile(ListedFile.qy, {"dependency"}, {ListedFile.px}, "file"),
       NftFile(ListedFile.ly, {"dependency"}, {ListedFile.a}, "file"),
       NftFile(ListedFile.l, {"resolve"}, {ListedFile.a}, "dir"),
       NftFile(ListedFile.mi, {"dependency", "sharedlib"}, {ListedFile.a, ListedFile.px}, "file"),
       NftFile(ListedFile.do, {"dependency"}, {ListedFile.a}, "file"),
       NftFile(ListedFile.dxz, {"asset"}, {ListedFile.a}, "file"),
       NftFile(ListedFile.usrk, {"dependency"}, {ListedFile.a}, "file") >>

\* traceResults.reasons.get(file)
ReasonOf(file) == NftFiles[CHOOSE k \in 1..Len(NftFiles) : NftFiles[k].file = file]

\* the places outDir may be: below baseDir, a workspace package's directory,
\* baseDir itself, beside baseDir, baseDir's parent
OutDirs ==
    { PathJoin(baseDir, <<"d">>), PathJoin(baseDir, <<"p">>), baseDir,
      <<"/", "r", "/", "o">>, <<"/", "r">> }

RECURSIVE DistinctSeqs(_, _)
DistinctSeqs(S, n) ==
    IF n = 0 THEN {<<>>}
    ELSE LET shorter == DistinctSeqs(S, n - 1)
         IN  shorter \cup { Append(s, x) : s \in { t \in shorter : Len(t) = n - 1 }, x \in S }

\* traceResults.fileList: a Set, so a list of distinct paths in insertion order
FileLists ==
    { l \in DistinctSeqs({ NftFiles[k].file : k \in 1..Len(NftFiles) }, MaxTraceFiles) :
          /\ l # <<>>
          /\ \A i, j \in 1..Len(l) : i # j => l[i] # l[j] }

\* ---- the resolvers ----

TracedNull == [t |-> "null"]
Pending    == [t |-> "pending"]

\* searchForPackageRoot(dir): the nearest directory at or above dir that holds a
\* package.json, <<>> when there is none
searchForPackageRoot(dir) ==
    LET segs  == Segments(dir)
        roots == { n \in 1..Len(segs) :
                      <<"/">> \o JoinSlash(SubSeq(segs, 1, n)) \in DOMAIN PackageJsons }
    IN  IF roots = {} THEN <<>>
        ELSE <<"/">> \o JoinSlash(SubSeq(segs, 1, CHOOSE n \in roots : \A m \in roots : m <= n))

PkgInfo(pkgName, pkgVersion, pkgPath, subpath, packageJson) ==
    [t |-> "info", pkgName |-> pkgName, pkgVersion |-> pkgVersion, pkgPath |-> pkgPath,
     subpath |-> subpath, packageJson |-> packageJson]

resolveWorkspacePackageUnnamed(absoluteFilePath) ==
    LET pkgRoot == searchForPackageRoot(PathDirname(absoluteFilePath))
    IN  IF pkgRoot = <<>> THEN TracedNull
        ELSE LET pkgJson == PackageJsons[pkgRoot]
             IN  PkgInfo(pkgJson.name,
                         IF pkgJson.version # <<>> THEN pkgJson.version ELSE DEFAULT_VERSION,
                         PathRelative(baseDir, pkgRoot),
                         PathRelative(pkgRoot, absoluteFilePath),
                         pkgJson)

resolveWorkspacePackage(absoluteFilePath) ==
    LET pkgRoot == searchForPackageRoot(PathDirname(absoluteFilePath))
    IN  IF pkgRoot = <<>> THEN TracedNull
        ELSE LET pkgJson == PackageJsons[pkgRoot]
             IN  IF pkgJson.name = <<>> THEN TracedNull
                 ELSE PkgInfo(pkgJson.name,
                              IF pkgJson.version # <<>> THEN pkgJson.version ELSE DEFAULT_VERSION,
                              PathRelative(baseDir, pkgRoot),
                              PathRelative(pkgRoot, absoluteFilePath),
                              pkgJson)

\* the longest run of characters from position k on that are not in stop
RunLength(s, k, stop) ==
    LET ends == { n \in 0..(Len(s) - k + 1) : \A j \in k..(k + n - 1) : s[j] \notin stop }
    IN  CHOOSE n \in ends : \A m \in ends : m <= n

\* the length of what ([^/@]+|@[^/]+\/[^/]+) matches at position k, 0 for no match
NameLength(s, k) ==
    IF k > Len(s) THEN 0
    ELSE IF s[k] # "@" THEN RunLength(s, k, {"/", "@"})
    ELSE LET scope == RunLength(s, k + 1, {"/"})
             name  == RunLength(s, k + scope + 2, {"/"})
         IN  IF scope >= 1 /\ k + scope + 1 <= Len(s) /\ name >= 1
             THEN 1 + scope + 1 + name
             ELSE 0

\* NODE_MODULES_RE.exec(relativePath): <<>> for no match, else
\* <<[nodeModulesBase, pkgName, rawSubpath]>>
NodeModulesMatch(s) ==
    LET nm    == NodeModulesChars \o <<"/">>
        K     == { k \in Occurrences(s, nm) : NameLength(s, k + Len(nm)) > 0 }
        deep  == { k \in K : k >= 3 /\ s[k - 1] = "/" }
        k     == IF deep # {} THEN CHOOSE x \in deep : \A y \in deep : y <= x
                 ELSE CHOOSE x \in K : \A y \in K : x <= y
        from  == IF deep # {} THEN 1 ELSE k
        n     == NameLength(s, k + Len(nm))
    IN  IF K = {} THEN <<>>
        ELSE << [nodeModulesBase |-> SubSeq(s, from, k + Len(nm) - 1),
                 pkgName         |-> SubSeq(s, k + Len(nm), k + Len(nm) + n - 1),
                 rawSubpath      |-> SubSeq(s, k + Len(nm) + n, Len(s))] >>

resolveNodeModulesPackage(relativePath) ==
    LET match == NodeModulesMatch(relativePath)
    IN  IF match = <<>> THEN TracedNull
        ELSE LET m       == match[1]
                 pkgPath == m.nodeModulesBase \o m.pkgName
                 read    == ReadPkgJson(PathJoin(baseDir, pkgPath))
                 subpath == IF StartsWith(m.rawSubpath, <<"/">>) THEN Tail(m.rawSubpath)
                            ELSE m.rawSubpath
             IN  PkgInfo(m.pkgName,
                         IF read # <<>> /\ read[1].version # <<>> THEN read[1].version
                         ELSE DEFAULT_VERSION,
                         pkgPath, subpath,
                         IF read # <<>> THEN read[1] ELSE PkgJson(m.pkgName, DEFAULT_VERSION))

TracedFile(path, parents, info) ==
    [t |-> "file", path |-> path, parents |-> parents, pkgName |-> info.pkgName,
     pkgVersion |-> info.pkgVersion, pkgPath |-> info.pkgPath, subpath |-> info.subpath,
     packageJson |-> info.packageJson]

processSingleFile(fileRelativePath) ==
    LET posixPath == toPosixPath(fileRelativePath)
        fullPath  == PathJoin(baseDir, posixPath)
        reason    == ReasonOf(fileRelativePath)
    IN  IF reason.stat # "file" THEN TracedNull
        ELSE LET realPath    == Realpath(fullPath)
                 parentPaths == { PathJoin(baseDir, p) : p \in reason.parents }
                 pkgInfo     == IF Includes(posixPath, NodeModulesChars \o <<"/">>)
                                THEN resolveNodeModulesPackage(posixPath)
                                ELSE resolveWorkspacePackage(realPath)
             IN  IF pkgInfo = TracedNull THEN TracedNull
                 ELSE TracedFile(realPath, parentPaths, pkgInfo)

\* the filter of traceProjectFiles
Excluded(file, relOutDir) ==
    \/ "initial" \in ReasonOf(file).type
    \/ StartsWith(file, <<"u", "s", "r", "/">>)
    \/ StartsWith(file, relOutDir)

FilesToProcess(list, dir) ==
    LET relOutDir == PathRelative(baseDir, dir)
        Keep(file) == ~Excluded(file, relOutDir)
    IN  SelectSeq(list, Keep)

\* tracedFilesMap[key] = value on an object that keeps its keys in insertion order
MapAssign(map, value) ==
    IF \E k \in 1..Len(map) : map[k].path = value.path
    THEN [k \in 1..Len(map) |-> IF map[k].path = value.path THEN value ELSE map[k]]
    ELSE Append(map, value)

\* for (const result of results) if (result) tracedFilesMap[result.path] = result
RECURSIVE AddResults(_, _)
AddResults(map, rs) ==
    IF rs = <<>> THEN map
    ELSE AddResults(IF Head(rs) = TracedNull THEN map ELSE MapAssign(map, Head(rs)),
                    Tail(rs))

\* nodeFileTrace has resolved; the file list is filtered
FilterFiles ==
    /\ tPc = "start"
    /\ filesToProcess' = FilesToProcess(fileList, outDir)
    /\ tPc' = "loop"
    /\ UNCHANGED <<fileList, outDir, tI, results, tracedFilesMap,
                   versVars, expVars, matVars, staVars, batVars, moreVars>>

\* one pass of the loop up to its await: processSingleFile called on every file of
\* the batch
IssueFiles ==
    /\ tPc = "loop"
    /\ tI < Len(filesToProcess)
    /\ results' = [j \in 1..Cardinality(Batch(Len(filesToProcess), tI)) |-> Pending]
    /\ tPc' = "await"
    /\ UNCHANGED <<fileList, outDir, filesToProcess, tI, tracedFilesMap,
                   versVars, expVars, matVars, staVars, batVars, moreVars>>

\* the processSingleFile call on the j-th file of the batch settles
ResolveFile(j) ==
    /\ tPc = "await"
    /\ j \in 1..Len(results)
    /\ results[j] = Pending
    /\ results' = [results EXCEPT ![j] = processSingleFile(filesToProcess[tI + j])]
    /\ UNCHANGED <<fileList, outDir, filesToProcess, tI, tPc, tracedFilesMap,
                   versVars, expVars, matVars, staVars, batVars, moreVars>>

\* Promise.all has resolved: the results go into the map in batch order
CollectResults ==
    /\ tPc = "await"
    /\ \A j \in 1..Len(results) : results[j] # Pending
    /\ tracedFilesMap' = AddResults(tracedFilesMap, results)
    /\ results' = <<>>
    /\ tI' = tI + batchSize
    /\ tPc' = "loop"
    /\ UNCHANGED <<fileList, outDir, filesToProcess,
                   versVars, expVars, matVars, staVars, batVars, moreVars>>

\* the loop has ended: traceProjectFiles returns tracedFilesMap
ReturnTraced ==
    /\ tPc = "loop"
    /\ tI >= Len(filesToProcess)
    /\ tPc' = "done"
    /\ UNCHANGED <<fileList, outDir, filesToProcess, tI, results, tracedFilesMap,
                   versVars, expVars, matVars, staVars, batVars, moreVars>>

InitTrace ==
    /\ versIdle
    /\ expIdle
    /\ matIdle
    /\ staIdle
    /\ batIdle
    /\ fileList \in FileLists
    /\ outDir \in OutDirs
    /\ filesToProcess = <<>>
    /\ tI = 0
    /\ tPc = "start"
    /\ results = <<>>
    /\ tracedFilesMap = <<>>
    /\ moreIdle

NextTrace ==
    \/ FilterFiles
    \/ IssueFiles
    \/ \E j \in 1..MaxTraceFiles : ResolveFile(j)
    \/ CollectResults
    \/ ReturnTraced

SpecTrace == InitTrace /\ [][NextTrace]_vars

-----------------------------------------------------------------------------
(* resolveNodeModulesPackage on generated paths *)

\* the path segments the generated paths are made of
PathSegments ==
    { NodeModulesChars, <<"a">>, <<"@", "s">>, <<"c">>, <<"a", "@", "1">> }

RECURSIVE SegmentSeqs(_)
SegmentSeqs(n) ==
    IF n = 0 THEN {<<>>}
    ELSE LET shorter == SegmentSeqs(n - 1)
         IN  shorter \cup { Append(p, x) : p \in { q \in shorter : Len(q) = n - 1 },
                                           x \in PathSegments }

\* the paths of files, relative to baseDir: at least two segments
RelativePaths == { JoinSlash(p) : p \in { q \in SegmentSeqs(MaxSegments) : Len(q) >= 2 } }

InitResolve ==
    /\ versIdle
    /\ expIdle
    /\ matIdle
    /\ staIdle
    /\ batIdle
    /\ trcIdle
    /\ bunIdle
    /\ plgIdle
    /\ resolveArg \in RelativePaths
    /\ resolveOut = [t |-> "none"]

\* processSingleFile calls the resolver on a path that includes 'node_modules/'
ResolveNodeModules ==
    /\ resolveOut.t = "none"
    /\ Includes(resolveArg, NodeModulesChars \o <<"/">>)
    /\ resolveOut' = resolveNodeModulesPackage(resolveArg)
    /\ UNCHANGED <<resolveArg, versVars, expVars, matVars, staVars, batVars, trcVars, bunVars, plgVars>>

NextResolve == ResolveNodeModules

SpecResolve == InitResolve /\ [][NextResolve]_vars

-----------------------------------------------------------------------------
(* bundle() and cleanup(), with the files on disk *)

\* options.output.dir
OutputDir == <<"/", "o">>

MjsExt == <<".", "m", "j", "s">>
MapExt == <<".", "m", "a", "p">>

\* the entries options.input is drawn from: a file of the output directory; the
\* file entry a is written to; a file outside the output directory; a file of a
\* subdirectory; the file the entry itself is written to; a file of a directory
\* whose name the output directory's name is a prefix of
EntryPool == {
    [name |-> <<"a">>, path |-> <<"/", "o", "/", "a", ".", "j", "s">>],
    [name |-> <<"b">>, path |-> <<"/", "o", "/", "a", ".", "m", "j", "s">>],
    [name |-> <<"c">>, path |-> <<"/", "s", "/", "c", ".", "j", "s">>],
    [name |-> <<"d">>, path |-> <<"/", "o", "/", "t", "/", "d", ".", "j", "s">>],
    [name |-> <<"e">>, path |-> <<"/", "o", "/", "e", ".", "m", "j", "s">>],
    [name |-> <<"f">>, path |-> <<"/", "o", "2", "/", "f", ".", "j", "s">>] }

HelperModule == <<"/", "o", "/", "h", ".", "j", "s">>

\* the modules a module imports
ImportsOf(path) ==
    IF path \in { <<"/", "o", "/", "a", ".", "j", "s">>, <<"/", "s", "/", "c", ".", "j", "s">>,
                  <<"/", "o", "/", "t", "/", "d", ".", "j", "s">> }
    THEN <<HelperModule>> ELSE <<>>

\* Object.entries(options.input): distinct names, in insertion order
BundleInputs ==
    { l \in DistinctSeqs(EntryPool, MaxEntries) :
        l # <<>> /\ \A i, j \in 1..Len(l) : i # j => l[i] # l[j] }

BundleOptions ==
    [input : BundleInputs, isolated : BOOLEAN, cleanup : BOOLEAN, sourcemap : BOOLEAN,
     cpus : 0..MaxCpus]

\* the directories above a file
Ancestors(abs) ==
    { <<"/">> \o JoinSlash(SubSeq(Segments(abs), 1, i)) : i \in 1..(Len(Segments(abs)) - 1) }

\* the disk when bundle() is called: the modules of the build, and next to every
\* module of the output directory the source map an earlier build step left
InitialDisk(input) ==
    LET modules == UNION { {input[i].path} \cup Range(ImportsOf(input[i].path)) : i \in 1..Len(input) }
        files == modules \cup { m \o MapExt : m \in { x \in modules : StartsWith(x, OutputDir \o <<"/">>) } }
    IN  [files |-> files, dirs |-> UNION { Ancestors(f) : f \in files }]

\* what rolldown's build() resolves with: per entry the chunk '[name].mjs' with the
\* ids of its modules and, with source maps on, the asset '[name].mjs.map'
RECURSIVE RolldownOutput(_, _)
RolldownOutput(input, sourcemap) ==
    IF input = <<>> THEN <<>>
    ELSE << [fileName |-> Head(input).name \o MjsExt,
             moduleIds |-> <<Head(input).path>> \o ImportsOf(Head(input).path)] >>
         \o (IF sourcemap THEN << [fileName |-> Head(input).name \o MjsExt \o MapExt] >> ELSE <<>>)
         \o RolldownOutput(Tail(input), sourcemap)

\* write: true
WriteOutput(disk, output, outputDir) ==
    LET written == { PathJoin(outputDir, output[i].fileName) : i \in 1..Len(output) }
    IN  [files |-> disk.files \cup written,
         dirs |-> disk.dirs \cup UNION { Ancestors(f) : f \in written }]

\* output.flatMap(o => ('moduleIds' in o ? o.moduleIds : []))
RECURSIVE BundledModuleIds(_)
BundledModuleIds(output) ==
    IF output = <<>> THEN <<>>
    ELSE (IF "moduleIds" \in DOMAIN Head(output) THEN Head(output).moduleIds ELSE <<>>)
         \o BundledModuleIds(Tail(output))

\* output.map(o => path.join(outputDir, o.fileName))
CleanupOutFilePaths(output, outputDir) ==
    [i \in 1..Len(output) |-> PathJoin(outputDir, output[i].fileName)]

\* a mutant of FilesToDelete: the output files are not spared
FilesToDeleteOutputsToo(output, outputDir) ==
    LET InDir(id) == StartsWith(id, outputDir)
    IN  SelectSeq(BundledModuleIds(output), InDir)

\* filesToDelete of cleanup (part_002 lines 9-11)
FilesToDelete(output, outputDir) ==
    LET outFilePaths == CleanupOutFilePaths(output, outputDir)
        ToDelete(id) == StartsWith(id, outputDir) /\ id \notin Range(outFilePaths)
    IN  SelectSeq(BundledModuleIds(output), ToDelete)

\* Set.prototype.add on a Set kept as the sequence of its elements
SetAdd(s, x) == IF x \in Range(s) THEN s ELSE Append(s, x)

\* the first loop of cleanup: unlinkSync throws when the file is gone, and the
\* error is ignored
RECURSIVE UnlinkFiles(_, _)
UnlinkFiles(st, filesToDelete) ==
    IF filesToDelete = <<>> THEN st
    ELSE LET file == Head(filesToDelete)
             mapFile == file \o MapExt
         IN  UnlinkFiles(
                 IF file \notin st.files THEN st
                 ELSE [files      |-> st.files \ {file, mapFile},
                       dirs       |-> st.dirs,
                       deleted    |-> st.deleted \cup ({file, mapFile} \cap st.files),
                       parentDirs |-> SetAdd(st.parentDirs, PathDirname(file))],
                 Tail(filesToDelete))

\* the second loop of cleanup: a directory with no entry left is removed
RECURSIVE RemoveEmptyDirs(_, _)
RemoveEmptyDirs(st, dirList) ==
    IF dirList = <<>> THEN st
    ELSE LET dir == Head(dirList)
             empty == \A x \in st.files \cup st.dirs : PathDirname(x) # dir
         IN  RemoveEmptyDirs(IF empty THEN [st EXCEPT !.dirs = @ \ {dir}] ELSE st, Tail(dirList))

\* cleanup(output, outputDir): the disk it leaves and the files it unlinked
cleanup(disk, output, outputDir) ==
    LET st == UnlinkFiles([files |-> disk.files, dirs |-> disk.dirs, deleted |-> {},
                           parentDirs |-> <<>>],
                          FilesToDelete(output, outputDir))
    IN  RemoveEmptyDirs(st, st.parentDirs)

BundleRunning == { k \in 1..Len(bBuilds) : bBuilds[k].state = "running" }

bunOthers == <<versVars, expVars, matVars, staVars, batVars, trcVars, resVars, plgVars>>

\* bundle() up to its first await (lines 66-95, 102-103)
BundleCall ==
    /\ bPc = "start"
    /\ bPc' = "building"
    /\ IF bOptions.isolated /\ Len(bOptions.input) > 1
       THEN /\ bQueue' = [i \in 1..Len(bOptions.input) |-> <<bOptions.input[i]>>]
            /\ UNCHANGED bBuilds
       ELSE /\ bBuilds' = <<[input |-> bOptions.input, state |-> "running", output |-> <<>>]>>
            /\ UNCHANGED bQueue
    /\ UNCHANGED <<bOptions, bDisk, bDeleted, bunOthers>>

\* p-limit takes the next callback off its queue when a slot is free
BundleStartBuild ==
    /\ bQueue # <<>>
    /\ Cardinality(BundleRunning) < Concurrency(bOptions.cpus)
    /\ bBuilds' = Append(bBuilds, [input |-> Head(bQueue), state |-> "running", output |-> <<>>])
    /\ bQueue' = Tail(bQueue)
    /\ UNCHANGED <<bOptions, bPc, bDisk, bDeleted, bunOthers>>

\* a _bundle call settles: build() wrote its files and resolved, or threw
BundleFinishBuild(k, ok) ==
    /\ k \in BundleRunning
    /\ IF ok
       THEN LET output == RolldownOutput(bBuilds[k].input, bOptions.sourcemap)
            IN  /\ bBuilds' = [bBuilds EXCEPT ![k].state = "done", ![k].output = output]
                /\ bDisk' = WriteOutput(bDisk, output, OutputDir)
       ELSE /\ bBuilds' = [bBuilds EXCEPT ![k].state = "failed"]
            /\ UNCHANGED bDisk
    /\ UNCHANGED <<bOptions, bPc, bQueue, bDeleted, bunOthers>>

\* every build resolved (lines 98-114): the outputs are aggregated, cleanup runs
\* when options.cleanup is set, and bundle() returns
BundleReturn ==
    /\ bPc = "building"
    /\ bQueue = <<>>
    /\ bBuilds # <<>>
    /\ \A k \in 1..Len(bBuilds) : bBuilds[k].state = "done"
    /\ bPc' = "resolved"
    /\ LET buildOutput == FlatMapOutput(bBuilds)
           cleaned == cleanup(bDisk, buildOutput, OutputDir)
       IN  IF bOptions.cleanup
           THEN /\ bDisk' = [files |-> cleaned.files, dirs |-> cleaned.dirs]
                /\ bDeleted' = bDeleted \cup cleaned.deleted
           ELSE UNCHANGED <<bDisk, bDeleted>>
    /\ UNCHANGED <<bOptions, bQueue, bBuilds, bunOthers>>

\* a build threw: the awaited Promise.all (or _bundle call) rejects and bundle()
\* with it; the other builds go on
BundleThrow ==
    /\ bPc = "building"
    /\ \E k \in 1..Len(bBuilds) : bBuilds[k].state = "failed"
    /\ bPc' = "rejected"
    /\ UNCHANGED <<bOptions, bQueue, bBuilds, bDisk, bDeleted, bunOthers>>

InitBundle ==
    /\ versIdle
    /\ expIdle
    /\ matIdle
    /\ staIdle
    /\ batIdle
    /\ trcIdle
    /\ resIdle
    /\ plgIdle
    /\ bOptions \in BundleOptions
    /\ bPc = "start"
    /\ bQueue = <<>>
    /\ bBuilds = <<>>
    /\ bDisk = InitialDisk(bOptions.input)
    /\ bDeleted = {}

NextBundle ==
    \/ BundleCall
    \/ BundleStartBuild
    \/ \E k \in 1..MaxEntries, ok \in BOOLEAN : BundleFinishBuild(k, ok)
    \/ BundleReturn
    \/ BundleThrow

SpecBundle == InitBundle /\ [][NextBundle]_vars

-----------------------------------------------------------------------------
(* getUniqueAssetName *)

\* the characters the class [a-zA-Z0-9_.-] matches
SafeChars ==
    { "a", "b", "c", "d", "e", "f", "g", "h", "i", "j", "k", "l", "m", "n", "o", "p", "q",
      "r", "s", "t", "u", "v", "w", "x", "y", "z",
      "A", "B", "C", "D", "E", "F", "G", "H", "I", "J", "K", "L", "M", "N", "O", "P", "Q",
      "R", "S", "T", "U", "V", "W", "X", "Y", "Z",
      "0", "1", "2", "3", "4", "5", "6", "7", "8", "9", "_", ".", "-" }

\* path.posix.basename of a path without trailing slashes
PosixBasename(p) == Last(Split(p, "/"))

\* String.prototype.replace(/[^a-zA-Z0-9_.-]/g, '_')
Sanitize(s) == [i \in 1..Len(s) |-> IF s[i] \in SafeChars THEN s[i] ELSE "_"]

\* path.posix.extname of a basename: from its last dot on, unless it has no dot,
\* starts with its last dot, or is '..'
PosixExtname(b) ==
    LET dots == { i \in 1..Len(b) : b[i] = "." }
    IN  IF dots = {} THEN <<>>
        ELSE LET d == CHOOSE i \in dots : \A j \in dots : j <= i
             IN  IF d = 1 \/ b = <<".", ".">> THEN <<>> ELSE SubSeq(b, d, Len(b))

\* `${baseName}_${counter}${ext}`
CounterName(baseName, counter, ext) == baseName \o <<"_">> \o FormatNat(counter) \o ext

\* a mutant of UniqueAssetName: the sanitized base name is returned as it is
SanitizedAssetName(desiredName, emittedNames) == Sanitize(PosixBasename(desiredName))

\* the name getUniqueAssetName returns: the while loop stops at the least counter
\* whose name the set does not hold
UniqueAssetName(desiredName, emittedNames) ==
    LET sanitizedBase == Sanitize(PosixBasename(desiredName))
        ext == PosixExtname(sanitizedBase)
        baseName == SubSeq(sanitizedBase, 1, Len(sanitizedBase) - Len(ext))
        free == { c \in 1..(Cardinality(emittedNames) + 1) :
                    CounterName(baseName, c, ext) \notin emittedNames }
    IN  IF sanitizedBase \notin emittedNames THEN sanitizedBase
        ELSE CounterName(baseName, CHOOSE c \in free : \A k \in free : c <= k, ext)

\* getUniqueAssetName(desiredName, emittedNames): the name and the set it leaves
getUniqueAssetName(desiredName, emittedNames) ==
    LET name == UniqueAssetName(desiredName, emittedNames)
    IN  [name |-> name, emittedNames |-> emittedNames \cup {name}]

\* the paths of the assets: two files of one basename, a file named like a
\* counter name, names that sanitize to one name, a dotfile, a name with a
\* trailing dot, a name without extension
AssetPaths == {
    <<"/", "d", "/", "f", ".", "t">>,
    <<"/", "e", "/", "f", ".", "t">>,
    <<"/", "d", "/", "f", "_", "1", ".", "t">>,
    <<"/", "d", "/", "f", " ", "g">>,
    <<"/", "d", "/", "f", "_", "g">>,
    <<"/", "d", "/", ".", "f">>,
    <<"/", "d", "/", "f", ".">>,
    <<"/", "d", "/", "f">> }

plgOthers == <<versVars, expVars, matVars, staVars, batVars, trcVars, resVars, bunVars, asrVars>>

\* one call of getUniqueAssetName on the instance's set
CallGetUniqueAssetName(desiredName) ==
    /\ Len(rReturned) < MaxCalls
    /\ LET r == getUniqueAssetName(desiredName, rNames)
       IN  /\ rNames' = r.emittedNames
           /\ rReturned' = Append(rReturned, r.name)
    /\ UNCHANGED <<relVars, plgOthers>>

InitNames ==
    /\ versIdle
    /\ expIdle
    /\ matIdle
    /\ staIdle
    /\ batIdle
    /\ trcIdle
    /\ resIdle
    /\ bunIdle
    /\ rNames = {}
    /\ rReturned = <<>>
    /\ relIdle
    /\ asrIdle

NextNames == \E desiredName \in AssetPaths : CallGetUniqueAssetName(desiredName)

SpecNames == InitNames /\ [][NextNames]_vars

-----------------------------------------------------------------------------
(* relocatePlugin.transform (relocate.ts) *)

\* options.root
RelocateRoot == <<"/", "d">>

\* the paths the references of a module evaluate to: two files of one basename,
\* a file that does not exist, a file outside the root
ReferencePaths == {
    <<"/", "d", "/", "f", ".", "t">>,
    <<"/", "d", "/", "s", "/", "f", ".", "t">>,
    <<"/", "d", "/", "g", ".", "t">>,
    <<"/", "e", "/", "f", ".", "t">> }

\* the files fs.access finds
ExistingFiles == ReferencePaths \ { <<"/", "d", "/", "g", ".", "t">> }

\* the static references of a module, in the order the walk meets them
ModuleReferences == { l \in UNION { [1..n -> ReferencePaths] : n \in 1..MaxRefs } : TRUE }

\* the filter of lines 117-119
InScope(absolutePath) ==
    /\ StartsWith(absolutePath, RelocateRoot)
    /\ ~Includes(absolutePath, <<"/">> \o NodeModulesChars \o <<"/">>)

TasksOf(t) == { i \in 1..Len(rTasks) : rTasks[i].transform = t }

\* transform(code, id) up to `await Promise.all(promises)`: the walk pushes one
\* task per reference in scope, and each task runs to its `await fs.access`
Transform(refs) ==
    /\ Len(rTransforms) < MaxModules
    /\ LET t == Len(rTransforms) + 1
           InScopeRef(absolutePath) == InScope(absolutePath)
           scoped == SelectSeq(refs, InScopeRef)
       IN  /\ rTransforms' = Append(rTransforms,
                                    [refs |-> refs, state |-> "pending", transformed |-> FALSE])
           /\ rTasks' = rTasks \o [i \in 1..Len(scoped) |->
                                     [transform |-> t, path |-> scoped[i], pc |-> "access",
                                      name |-> <<>>]]
    /\ UNCHANGED <<rNames, rReturned, rMap, rEmitted, plgOthers>>

\* fs.access settles (lines 124-127, 135-146): a missing file ends the task; a path
\* the map holds is rewritten with the name it was emitted under; otherwise the
\* task goes on to `await fs.readFile`
AccessSettles(i) ==
    /\ rTasks[i].pc = "access"
    /\ LET absolutePath == rTasks[i].path
       IN  IF absolutePath \notin ExistingFiles
           THEN /\ rTasks' = [rTasks EXCEPT ![i].pc = "skipped"]
                /\ UNCHANGED rTransforms
           ELSE IF absolutePath \in DOMAIN rMap
           THEN /\ rTasks' = [rTasks EXCEPT ![i].pc = "done", ![i].name = rMap[absolutePath]]
                /\ rTransforms' = [rTransforms EXCEPT ![rTasks[i].transform].transformed = TRUE]
           ELSE /\ rTasks' = [rTasks EXCEPT ![i].pc = "read"]
                /\ UNCHANGED rTransforms
    /\ UNCHANGED <<rNames, rReturned, rMap, rEmitted, plgOthers>>

\* fs.readFile settles (lines 128-141): a name is taken, the asset emitted, the
\* map set and the reference rewritten
ReadSettles(i) ==
    /\ rTasks[i].pc = "read"
    /\ LET absolutePath == rTasks[i].path
           r == getUniqueAssetName(PosixBasename(absolutePath), rNames)
       IN  /\ rNames' = r.emittedNames
           /\ rReturned' = Append(rReturned, r.name)
           /\ rEmitted' = Append(rEmitted, [fileName |-> r.name, path |-> absolutePath])
           /\ rMap' = (absolutePath :> r.name) @@ rMap
           /\ rTasks' = [rTasks EXCEPT ![i].pc = "done", ![i].name = r.name]
           /\ rTransforms' = [rTransforms EXCEPT ![rTasks[i].transform].transformed = TRUE]
    /\ UNCHANGED plgOthers

\* every task of the call has settled: transform returns the rewritten code, or
\* null when nothing was rewritten (lines 153-161)
TransformReturns(t) ==
    /\ rTransforms[t].state = "pending"
    /\ \A i \in TasksOf(t) : rTasks[i].pc \in {"done", "skipped"}
    /\ rTransforms' = [rTransforms EXCEPT ![t].state =
                          IF rTransforms[t].transformed THEN "code" ELSE "null"]
    /\ UNCHANGED <<rNames, rReturned, rMap, rTasks, rEmitted, plgOthers>>

InitRelocate ==
    /\ versIdle
    /\ expIdle
    /\ matIdle
    /\ staIdle
    /\ batIdle
    /\ trcIdle
    /\ resIdle
    /\ bunIdle
    /\ rNames = {}
    /\ rReturned = <<>>
    /\ rMap = <<>>
    /\ rTransforms = <<>>
    /\ rTasks = <<>>
    /\ rEmitted = <<>>
    /\ asrIdle

NextRelocate ==
    \/ \E refs \in ModuleReferences : Transform(refs)
    \/ \E i \in 1..Len(rTasks) : AccessSettles(i)
    \/ \E i \in 1..Len(rTasks) : ReadSettles(i)
    \/ \E t \in 1..Len(rTransforms) : TransformReturns(t)

SpecRelocate == InitRelocate /\ [][NextRelocate]_vars

-----------------------------------------------------------------------------
(* assetRelocatorPlugin (static-eval.ts): load, transform and renderChunk *)

\* 'import.meta.STANDALONER_ASSET_'
PlaceholderPrefix ==
    <<"i", "m", "p", "o", "r", "t", ".", "m", "e", "t", "a", ".", "S", "T", "A", "N",
      "D", "A", "L", "O", "N", "E", "R", "_", "A", "S", "S", "E", "T", "_">>

\* 'asset_'
AssetIdPrefix == <<"a", "s", "s", "e", "t", "_">>

\* the outputDir option _bundle passes (bundle.ts line 123)
AssetOutputDir == <<".", "s", "t", "a", "t", "i", "c">>

\* `asset_${placeholderCounter++}`
PlaceholderId(counter) == AssetIdPrefix \o FormatNat(counter)

\* `import.meta.STANDALONER_ASSET_${placeholderId}`
Placeholder(placeholderId) == PlaceholderPrefix \o placeholderId

\* the digits s starts with: \d+ takes them all
RECURSIVE LeadingDigits(_)
LeadingDigits(s) ==
    IF s = <<>> \/ ~IsDigit(Head(s)) THEN <<>> ELSE <<Head(s)>> \o LeadingDigits(Tail(s))

\* the match of /import\.meta\.STANDALONER_ASSET_(asset_\d+)/ that starts at
\* position i of code: <<>> when there is none, else <<[index, text, id]>>
MatchAt(code, i) ==
    LET head == PlaceholderPrefix \o AssetIdPrefix
        stop == i + Len(head) - 1
    IN  IF stop >= Len(code) \/ SubSeq(code, i, stop) # head THEN <<>>
        ELSE LET digits == LeadingDigits(SubSeq(code, stop + 1, Len(code)))
             IN  IF digits = <<>> THEN <<>>
                 ELSE << [index |-> i, text |-> head \o digits, id |-> AssetIdPrefix \o digits] >>

\* a mutant of PlaceholderMatches: the pattern without its g flag matches once
RECURSIVE FirstPlaceholderMatch(_, _)
FirstPlaceholderMatch(code, from) ==
    IF from > Len(code) THEN <<>>
    ELSE IF MatchAt(code, from) = <<>> THEN FirstPlaceholderMatch(code, from + 1)
    ELSE MatchAt(code, from)

\* the matches of the loop `while ((match = placeholderPattern.exec(code)))`,
\* lastIndex starting at from
RECURSIVE PlaceholderMatches(_, _)
PlaceholderMatches(code, from) ==
    IF from > Len(code) THEN <<>>
    ELSE IF MatchAt(code, from) = <<>> THEN PlaceholderMatches(code, from + 1)
    ELSE MatchAt(code, from)
             \o PlaceholderMatches(code, from + Len(MatchAt(code, from)[1].text))

\* survivingPlaceholders: a Set, kept in insertion order
RECURSIVE SurvivingPlaceholders(_)
SurvivingPlaceholders(matches) ==
    IF matches = <<>> THEN <<>>
    ELSE SetAdd(SurvivingPlaceholders(Front(matches)), Last(matches).id)

\* String.prototype.endsWith
EndsWith(s, x) == Len(x) <= Len(s) /\ SubSeq(s, Len(s) - Len(x) + 1, Len(s)) = x

\* /\.(js|mjs|cjs|ts|tsx|jsx)$/.test(id)
IsScriptId(id) ==
    \E x \in { <<".", "j", "s">>, <<".", "m", "j", "s">>, <<".", "c", "j", "s">>,
               <<".", "t", "s">>, <<".", "t", "s", "x">>, <<".", "j", "s", "x">> } :
        EndsWith(id, x)

\* the references findFileReferences may return: two kinds of reference to one
\* file, a file of the same basename in another directory, a missing file
AssetReferences == {
    [path |-> <<"/", "d", "/", "f", ".", "t">>, type |-> "url"],
    [path |-> <<"/", "d", "/", "f", ".", "t">>, type |-> "fs"],
    [path |-> <<"/", "d", "/", "s", "/", "f", ".", "t">>, type |-> "require"],
    [path |-> <<"/", "d", "/", "g", ".", "t">>, type |-> "path"] }

\* the ids transform is called with: a script and a stylesheet
TransformIds == { <<"/", "d", "/", "m", ".", "j", "s">>, <<"/", "d", "/", "c", ".", "c", "s", "s">> }

\* the ids load is called with: a native addon, one that does not exist, a
\* virtual module ("NUL" stands for the character \0), a script
LoadIds == {
    <<"/", "d", "/", "n", ".", "n", "o", "d", "e">>,
    <<"/", "d", "/", "z", ".", "n", "o", "d", "e">>,
    <<"NUL", "v", ".", "n", "o", "d", "e">>,
    <<"/", "d", "/", "m", ".", "j", "s">> }

\* fs.existsSync(p) && fs.statSync(p).isFile()
IsFile(p) == p \in ExistingFiles \cup { <<"/", "d", "/", "n", ".", "n", "o", "d", "e">> }

FileReferences == UNION { [1..n -> AssetReferences] : n \in 1..MaxRefs }

\* the text of a statement around the node that holds the reference
StatementOf(node) == <<"x", "(">> \o node \o <<")", ";">>

\* the node of a reference the transform leaves alone
OriginalNode == <<"'", "g", "'">>

\* the loop of lines 408-463 over fileReferences: the statements of the module
\* after the overwrites, the asset infos set and the counter
RECURSIVE TransformReferences(_, _, _)
TransformReferences(st, fileReferences, sourceId) ==
    IF fileReferences = <<>> THEN st
    ELSE LET reference == Head(fileReferences)
             placeholderId == PlaceholderId(st.counter)
         IN  TransformReferences(
                 IF ~IsFile(reference.path)
                 THEN [st EXCEPT !.statements = Append(@, StatementOf(OriginalNode))]
                 ELSE [statements |-> Append(st.statements, StatementOf(Placeholder(placeholderId))),
                       info |-> (placeholderId :> [absolutePath |-> reference.path,
                                                    type |-> reference.type,
                                                    sourceId |-> sourceId]) @@ st.info,
                       counter |-> st.counter + 1],
                 Tail(fileReferences), sourceId)

\* path.posix.relative(path.posix.dirname(chunk.fileName), fileName), both
\* relative to the output directory
ChunkRelative(chunkFileName, fileName) ==
    LET from == Front(Split(chunkFileName, "/"))
        to == Split(fileName, "/")
        c == CommonPrefixLen(from, to)
    IN  JoinSlash([i \in 1..(Len(from) - c) |-> <<".", ".">>] \o SubSeq(to, c + 1, Len(to)))

\* JSON.stringify of a string without characters to escape
JSONString(s) == <<"\"">> \o s \o <<"\"">>

NewURLOpen == <<"n", "e", "w", " ", "U", "R", "L", "(">>
ImportMetaUrlClose == <<",", " ", "i", "m", "p", "o", "r", "t", ".", "m", "e", "t", "a", ".", "u", "r",
      "l", ")">>
DotPathname == <<".", "p", "a", "t", "h", "n", "a", "m", "e">>
RequireOpen == <<"r", "e", "q", "u", "i", "r", "e", "(">>

\* the replacement of lines 575-590
Replacement(type, chunkFileName, fileName) ==
    LET relativePath == ChunkRelative(chunkFileName, fileName)
        relativePathWithDot ==
            IF StartsWith(relativePath, <<".", "/">>) THEN relativePath
            ELSE <<".", "/">> \o relativePath
    IN  IF type = "url"
        THEN NewURLOpen \o JSONString(relativePathWithDot) \o ImportMetaUrlClose
        ELSE IF type \in {"path", "fs"}
        THEN NewURLOpen \o JSONString(relativePathWithDot) \o ImportMetaUrlClose \o DotPathname
        ELSE RequireOpen \o JSONString(relativePathWithDot) \o <<")">>

\* the loop of lines 507-547 over survivingPlaceholders: st holds emittedAssets
\* (of this call), emittedNames, the emitFile calls and placeholderToReferenceId;
\* a reference id is the position of its emitFile call
RECURSIVE EmitSurviving(_, _, _)
EmitSurviving(st, surviving, infoMap) ==
    IF surviving = <<>> THEN st
    ELSE LET placeholderId == Head(surviving)
         IN  EmitSurviving(
                 IF placeholderId \notin DOMAIN infoMap THEN st
                 ELSE LET assetInfo == infoMap[placeholderId]
                          known == assetInfo.absolutePath \in DOMAIN st.emittedAssets
                          r == getUniqueAssetName(assetInfo.absolutePath, st.names)
                          fileName == IF AssetOutputDir # <<>>
                                      THEN AssetOutputDir \o <<"/">> \o r.name ELSE r.name
                          referenceId == IF known THEN st.emittedAssets[assetInfo.absolutePath]
                                         ELSE Len(st.emitted) + 1
                      IN  [emittedAssets |-> (assetInfo.absolutePath :> referenceId) @@ st.emittedAssets,
                           names    |-> IF known THEN st.names ELSE r.emittedNames,
                           returned |-> IF known THEN st.returned ELSE Append(st.returned, r.name),
                           emitted  |-> IF known THEN st.emitted
                                        ELSE Append(st.emitted, [fileName |-> fileName,
                                                                 path |-> assetInfo.absolutePath]),
                           refs     |-> (placeholderId :> [referenceId |-> referenceId,
                                                            type |-> assetInfo.type]) @@ st.refs],
                 Tail(surviving), infoMap)

\* the code after the overwrites of lines 554-595: the text before each match and
\* its replacement, or the match itself when it has no reference id
RECURSIVE ReplacePlaceholders(_, _, _, _, _)
ReplacePlaceholders(code, from, matches, refs, chunk) ==
    IF matches = <<>> THEN SubSeq(code, from, Len(code))
    ELSE LET match == Head(matches)
             text == IF match.id \in DOMAIN refs
                     THEN Replacement(refs[match.id].type, chunk.fileName,
                                      chunk.emitted[refs[match.id].referenceId].fileName)
                     ELSE match.text
         IN  SubSeq(code, from, match.index - 1) \o text
                 \o ReplacePlaceholders(code, match.index + Len(match.text), Tail(matches), refs, chunk)

\* the statement a module may hold that names a placeholder no hook has made
StrayStatement == StatementOf(Placeholder(PlaceholderId(MaxStatements + 1)))

\* chunk.fileName of the k-th chunk
ChunkFileNames == << <<"i", "n", "d", "e", "x", ".", "m", "j", "s">>,
                     <<"s", "u", "b", "/", "c", ".", "m", "j", "s">> >>

RenderedStatements == UNION { aChunks[k].statements : k \in 1..Len(aChunks) }

asrOthers == <<versVars, expVars, matVars, staVars, batVars, trcVars, resVars, bunVars,
               rMap, rTransforms, rTasks>>

\* load(id), lines 357-390
Load(id) ==
    /\ aChunks = <<>>
    /\ Len(aStatements) < MaxStatements
    /\ IF \/ Head(id) = "NUL"
          \/ PosixExtname(PosixBasename(id)) # <<".", "n", "o", "d", "e">>
          \/ ~IsFile(id)
       THEN UNCHANGED <<aInfo, aCounter, aStatements>>
       ELSE LET placeholderId == PlaceholderId(aCounter)
            IN  /\ aInfo' = (placeholderId :> [absolutePath |-> id, type |-> "load",
                                                sourceId |-> id]) @@ aInfo
                /\ aCounter' = aCounter + 1
                /\ aStatements' = Append(aStatements, StatementOf(Placeholder(placeholderId)))
    /\ UNCHANGED <<aRefs, aChunks, rNames, rReturned, rEmitted, asrOthers>>

\* transform.handler(code, id), lines 394-483
TransformAssets(id, fileReferences) ==
    /\ aChunks = <<>>
    /\ Len(aStatements) + Len(fileReferences) <= MaxStatements
    /\ IF ~IsScriptId(id)
       THEN UNCHANGED <<aInfo, aCounter, aStatements>>
       ELSE LET st == TransformReferences([statements |-> aStatements, info |-> aInfo,
                                           counter |-> aCounter], fileReferences, id)
            IN  /\ aInfo' = st.info
                /\ aCounter' = st.counter
                /\ aStatements' = st.statements
    /\ UNCHANGED <<aRefs, aChunks, rNames, rReturned, rEmitted, asrOthers>>

\* renderChunk(code, chunk), lines 486-603: the chunk holds the statements that
\* tree-shaking left of the modules it includes
RenderChunk(statements, stray) ==
    /\ Len(aChunks) < MaxChunks
    /\ statements \subseteq (1..Len(aStatements)) \ RenderedStatements
    /\ LET order == SortedSeq(statements)
           code == Concat([i \in 1..Len(order) |-> aStatements[order[i]]])
                       \o (IF stray THEN StrayStatement ELSE <<>>)
           fileName == ChunkFileNames[Len(aChunks) + 1]
           matches == PlaceholderMatches(code, 1)
           st == EmitSurviving([emittedAssets |-> <<>>, names |-> rNames, returned |-> <<>>,
                                emitted |-> rEmitted, refs |-> aRefs],
                               SurvivingPlaceholders(matches), aInfo)
           final == ReplacePlaceholders(code, 1, matches, st.refs,
                                        [fileName |-> fileName, emitted |-> st.emitted])
       IN  IF matches = <<>>
           THEN /\ aChunks' = Append(aChunks, [fileName |-> fileName, statements |-> statements,
                                               code |-> code, final |-> code])
                /\ UNCHANGED <<rNames, rReturned, rEmitted, aRefs>>
           ELSE /\ rNames' = st.names
                /\ rReturned' = rReturned \o st.returned
                /\ rEmitted' = st.emitted
                /\ aRefs' = st.refs
                /\ aChunks' = Append(aChunks, [fileName |-> fileName, statements |-> statements,
                                               code |-> code, final |-> final])
    /\ UNCHANGED <<aInfo, aCounter, aStatements, asrOthers>>

InitAssets ==
    /\ versIdle
    /\ expIdle
    /\ matIdle
    /\ staIdle
    /\ batIdle
    /\ trcIdle
    /\ resIdle
    /\ bunIdle
    /\ rNames = {}
    /\ rReturned = <<>>
    /\ rMap = <<>>
    /\ rTransforms = <<>>
    /\ rTasks = <<>>
    /\ rEmitted = <<>>
    /\ aInfo = <<>>
    /\ aCounter = 0
    /\ aStatements = <<>>
    /\ aRefs = <<>>
    /\ aChunks = <<>>

NextAssets ==
    \/ \E id \in LoadIds : Load(id)
    \/ \E id \in TransformIds, fileReferences \in FileReferences : TransformAssets(id, fileReferences)
    \/ \E statements \in SUBSET (1..MaxStatements), stray \in BOOLEAN : RenderChunk(statements, stray)

SpecAssets == InitAssets /\ [][NextAssets]_vars

-----------------------------------------------------------------------------
(* Claims about compareVersions (checked under SpecVersions) *)

Sign(n) == IF n > 0 THEN 1 ELSE IF n < 0 THEN -1 ELSE 0

CoreAt(sv, i) == IF i <= Len(sv.core) THEN sv.core[i] ELSE 0

\* the component-wise comparison of b's numeric core against a's, missing trailing
\* components read as 0: 1 when b is newer, -1 when a is newer, 0 otherwise
CoreOrder(a, b) ==
    LET differ == { i \in 1..Max(Len(a.core), Len(b.core)) : CoreAt(a, i) # CoreAt(b, i) }
    IN  IF differ = {} THEN 0
        ELSE LET k == CHOOSE i \in differ : \A j \in differ : i <= j
             IN  IF CoreAt(b, k) > CoreAt(a, k) THEN 1 ELSE -1

\* C8: the sign of compareVersions(a, b) is the sign of the component-wise
\* comparison of b's numeric core against a's (suffix after '-' dropped, missing
\* components 0), so "1.0" / "1.0.0" and "2.0.0-beta.1" / "2.0.0" compare equal,
\* and a list sorted with it has no older version before a newer one.
C8_CompareVersionsSign ==
    /\ vout.op = "compare" => Sign(vout.r) = CoreOrder(vlist[1], vlist[2])
    /\ vout.op = "compare" /\ <<vlist[1], vlist[2]>> \in BoundaryLists => vout.r = 0
    /\ vout.op = "sort" =>
          \A i \in 1..Len(vout.r) : \A j \in i..Len(vout.r) :
              CoreOrder(vlist[vout.r[i]], vlist[vout.r[j]]) <= 0

C8_Witness ==
    /\ vout.op = "compare"
    /\ vlist = << [core |-> <<2, 0, 0>>, pre |-> TRUE], [core |-> <<2, 0, 0>>, pre |-> FALSE] >>
    /\ vout.r = 0

-----------------------------------------------------------------------------
(* Claims about applyProductionCondition (checked under SpecExports) *)

\* C6: the manifest written for exports {".": {"production": "./prod.js",
\* "default": "./dev.js"}} has exports {".": "./prod.js"}.
C6_DotProductionCollapses ==
    exportsIn = ExportsDotProduction /\ applied = 1
        => exportsObj = JObj("." :> JStr("./prod.js"))

HasProductionObject(e) ==
    /\ e.t = "obj"
    /\ "production" \in DOMAIN e.m
    /\ e.m["production"].t = "obj"

HasProduction(e) ==
    /\ e.t = "obj"
    /\ "production" \in DOMAIN e.m
    /\ e.m["production"].t # "null"

\* the level `after` is the level `before` with its production entry removed and
\* the keys of the production object merged over the siblings, every value
\* rewritten in turn
MergedLevel(before, after) ==
    LET prod == before.m["production"].m
        siblings == (DOMAIN before.m) \ {"production"}
    IN  /\ after.t = "obj"
        /\ DOMAIN after.m = siblings \cup DOMAIN prod
        /\ \A k \in DOMAIN prod : after.m[k] = applyProductionCondition(prod[k])
        /\ \A k \in siblings \ DOMAIN prod : after.m[k] = applyProductionCondition(before.m[k])

\* C7: at a level whose production value is an object, the production entry is
\* removed and the object's keys are merged shallowly into the level, every
\* sibling key the production object does not redefine being kept; this holds at
\* the top level and at a nested level.
C7_ProductionObjectMerges ==
    applied = 1 =>
        /\ HasProductionObject(exportsIn) => MergedLevel(exportsIn, exportsObj)
        /\ exportsIn.t = "obj" /\ ~HasProduction(exportsIn) =>
              \A k \in DOMAIN exportsIn.m :
                  HasProductionObject(exportsIn.m[k]) =>
                      /\ exportsObj.t = "obj"
                      /\ k \in DOMAIN exportsObj.m
                      /\ MergedLevel(exportsIn.m[k], exportsObj.m[k])

C7_Witness ==
    /\ applied = 1
    /\ exportsIn = ExportsProductionObject
    /\ exportsObj = JObj(("import" :> JStr("./p.mjs")) @@ ("require" :> JStr("./d.cjs")))

-----------------------------------------------------------------------------
(* Claims about processTracedFiles (checked under Spec and SpecTwice) *)

IsLink(tree, p) == p \in DOMAIN tree /\ tree[p].kind = "symlink"

IsCopyOf(tree, p, src) == p \in DOMAIN tree /\ tree[p] = FileEntry(src)

\* the traced files copied into directory dir
CopiedInto(tree, dir) ==
    { tree[p].src : p \in { q \in DOMAIN tree : IsPrefix(dir, q) /\ tree[q].kind = "file" } }

\* version w is newer than version v: at the first numeric component where they
\* differ, w's is the greater
NewerThan(w, v) ==
    LET pw == VersionParts(w)
        pv == VersionParts(v)
    IN  \E k \in 1..Max(Len(pw), Len(pv)) :
            /\ PartAt(pw, k) > PartAt(pv, k)
            /\ \A j \in 1..(k - 1) : PartAt(pw, j) = PartAt(pv, j)

\* the traced cross-package edges <<p, f>>: p is a parent of f, of another package
CrossEdges(tf) ==
    { e \in Range(tf) \X Range(tf) :
        e[1].path \in Range(e[2].parents) /\ e[1].pkgName # e[2].pkgName }

\* the directories a lookup of node_modules/<name> from dir visits, nearest first
LookupCandidates(dir, name) ==
    LET starts == [i \in 1..(Len(dir) + 1) |-> SubSeq(dir, 1, Len(dir) + 1 - i)]
        NotNodeModules(d) == d = <<>> \/ Last(d) # "node_modules"
        kept == SelectSeq(starts, NotNodeModules)
    IN  [i \in 1..Len(kept) |-> kept[i] \o <<"node_modules">> \o name]

\* the real directory a Node-style upward lookup of node_modules/<name> from dir
\* ends in (<<>> when no candidate exists)
NodeLookup(tree, dir, name) ==
    LET cands == LookupCandidates(dir, name)
        found == { i \in 1..Len(cands) : ExistsSync(tree, cands[i]) }
    IN  IF found = {} THEN <<>>
        ELSE LET c == cands[CHOOSE i \in found : \A j \in found : i <= j]
             IN  IF tree[c].kind = "symlink" THEN LinkDest(tree, c) ELSE c

\* C1: after processTracedFiles completes on an empty tree, a dependency link
\* exists at <consumerOutDir>/node_modules/<dep> iff some traced file of dep has a
\* traced parent of another package and dep is multi-version, and the link
\* resolves to .versions/<dep>@<version of that file>.
C1_DependencyLinks ==
    pc = "done" /\ outcome = "resolved" /\ Deviations(env) = 0 =>
        LET edges == { e \in CrossEdges(tracedFiles) : IsMultiVersion(tracedFiles, e[2].pkgName) }
            Target(e) == PackageOutputDir(tracedFiles, e[1].pkgName, e[1].pkgVersion)
                             \o <<"node_modules">> \o e[2].pkgName
            topLevel == { TopLevelDir(tracedFiles[i].pkgName) : i \in 1..Len(tracedFiles) }
        IN  /\ \A e \in edges :
                  /\ IsLink(fs, Target(e))
                  /\ LinkDest(fs, Target(e)) = VersionDir(e[2].pkgName, e[2].pkgVersion)
            /\ \A q \in DOMAIN fs :
                  IsLink(fs, q) /\ q \notin topLevel => \E e \in edges : Target(e) = q

\* C2: after a run into an empty tree completes, the top-level node_modules/<name>
\* of every multi-version package is a symlink resolving to .versions/<name>@<v>,
\* and no traced version of the package is newer than v.
C2_TopLevelNewest ==
    pc = "done" /\ outcome = "resolved" /\ run = 1 =>
        \A n \in Range(RegistryNames(tracedFiles)) :
            IsMultiVersion(tracedFiles, n) =>
                /\ IsLink(fs, TopLevelDir(n))
                /\ \E v \in Range(RegistryVersions(tracedFiles, n)) :
                      /\ LinkDest(fs, TopLevelDir(n)) = VersionDir(n, v)
                      /\ VersionDir(n, v) \in DOMAIN fs
                      /\ \A w \in Range(RegistryVersions(tracedFiles, n)) : ~NewerThan(w, v)

C2_Witness ==
    /\ pc = "done" /\ outcome = "resolved" /\ run = 1
    /\ Range(RegistryVersions(tracedFiles, <<"B">>))
          = { <<"1", ".", "2", ".", "0">>, <<"1", ".", "1", "0", ".", "0">>,
              <<"1", ".", "2", ".", "3">> }
    /\ IsLink(fs, TopLevelDir(<<"B">>))
    /\ LinkDest(fs, TopLevelDir(<<"B">>)) = <<"node_modules", ".versions", "B@1.10.0">>

\* C3: for every traced cross-package edge from package A to a file f of package
\* B, a Node-style upward lookup of node_modules/B from the materialized directory
\* of A's version ends in the directory that holds f's version of B.
C3_LookupFindsExactVersion ==
    pc = "done" /\ outcome = "resolved" /\ Deviations(env) = 0 =>
        \A e \in CrossEdges(tracedFiles) :
            NodeLookup(fs, PackageOutputDir(tracedFiles, e[1].pkgName, e[1].pkgVersion),
                       e[2].pkgName)
                = PackageOutputDir(tracedFiles, e[2].pkgName, e[2].pkgVersion)

\* the (name, version) buckets of the registry
Buckets(tf) ==
    { <<n, v>> : n \in Range(RegistryNames(tf)), v \in { tf[i].pkgVersion : i \in 1..Len(tf) } }

\* a traced file is in exactly one bucket
InOneBucket(tf) ==
    \A i \in 1..Len(tf) :
        Cardinality({ b \in Buckets(tf) : tf[i].path \in Range(RegistryFiles(tf, b[1], b[2])) }) = 1

\* the files of a bucket that are not copied: destination too long, or copy failing
NotCopied(tf, e, name, version) ==
    { f \in Range(RegistryFiles(tf, name, version)) :
        \/ f \in e.unreadable
        \/ PathLength(e.outDirLen, DestPath(PackageOutputDir(tf, name, version), Lookup(tf, f)))
               > MAX_PATH_LENGTH }

\* C4 as stated: for two traced versions of a package the sets of files copied into
\* their .versions directories are disjoint and each equals exactly the traced
\* file list of the version; every traced file is in exactly one bucket.
C4_ExactVersionDirs ==
    pc = "done" /\ run = 1 =>
        /\ InOneBucket(tracedFiles)
        /\ \A n \in Range(RegistryNames(tracedFiles)) :
              IsMultiVersion(tracedFiles, n) =>
                  \A v1, v2 \in Range(RegistryVersions(tracedFiles, n)) :
                      /\ CopiedInto(fs, VersionDir(n, v1)) = Range(RegistryFiles(tracedFiles, n, v1))
                      /\ v1 # v2 => CopiedInto(fs, VersionDir(n, v1))
                                       \cap CopiedInto(fs, VersionDir(n, v2)) = {}

\* C4, amended: the sets are disjoint and each equals the traced file list of the
\* version less the files skipped for their path length or whose copy failed;
\* every traced file is in exactly one bucket.
C4_VersionDirsLessErrors ==
    pc = "done" /\ run = 1 =>
        /\ InOneBucket(tracedFiles)
        /\ \A n \in Range(RegistryNames(tracedFiles)) :
              IsMultiVersion(tracedFiles, n) =>
                  \A v1, v2 \in Range(RegistryVersions(tracedFiles, n)) :
                      /\ CopiedInto(fs, VersionDir(n, v1))
                            = Range(RegistryFiles(tracedFiles, n, v1))
                                  \ NotCopied(tracedFiles, env, n, v1)
                      /\ v1 # v2 => CopiedInto(fs, VersionDir(n, v1))
                                       \cap CopiedInto(fs, VersionDir(n, v2)) = {}

C4_Witness ==
    /\ pc = "done" /\ run = 1
    /\ env.unreadable = {"/app/node_modules/A/node_modules/B/index.js"}
    /\ CopiedInto(fs, VersionDir(<<"B">>, <<"1", ".", "2", ".", "0">>)) = {}
    /\ CopiedInto(fs, VersionDir(<<"B">>, <<"1", ".", "1", "0", ".", "0">>))
          = {"/app/node_modules/B/index.js"}

\* C5: running processTracedFiles twice with the same trace result and outDir
\* leaves the tree the first run left, and the second run creates no symlink.
C5_SecondRunChangesNothing ==
    pc = "done" /\ run = 2 /\ Deviations(env) = 0 => fs = firstTree /\ symlinksMade = 0

\* C9: in copyPackageVersion a file whose destination path is longer than 260
\* characters, or whose copy fails, is not copied and is recorded as an error;
\* every other file of the batch is copied, the package.json is written, and the
\* operation does not fail.
C9_CopyErrorsAreLocal ==
    /\ pc \in {"start", "copy", "deplinks"} => outcome = "pending"
    /\ run = 1 =>
          \A i \in 1..Len(copyTasks) :
              copyTasks[i].state = "done" =>
                  /\ \A f \in Range(copyTasks[i].files) :
                        LET dest == DestPath(copyTasks[i].destDir, Lookup(tracedFiles, f))
                        IN  IF \/ PathLength(env.outDirLen, dest) > MAX_PATH_LENGTH
                               \/ f \in env.unreadable
                            THEN f \in copyTasks[i].errors /\ ~IsCopyOf(fs, dest, f)
                            ELSE /\ f \notin copyTasks[i].errors
                                 /\ \/ IsCopyOf(fs, dest, f)
                                    \/ /\ dest = copyTasks[i].destDir \o <<"package.json">>
                                       /\ copyTasks[i].wrote
                  /\ ~env.writeFails =>
                        /\ copyTasks[i].destDir \o <<"package.json">> \in DOMAIN fs
                        /\ fs[copyTasks[i].destDir \o <<"package.json">>].kind = "manifest"

C9_Witness ==
    /\ run = 1
    /\ \E i \in 1..Len(copyTasks) :
          /\ copyTasks[i].state = "done"
          /\ copyTasks[i].destDir = <<"node_modules", "A">>
          /\ copyTasks[i].errors = {"/app/node_modules/A/index.js"}
          /\ PathLength(env.outDirLen, <<"node_modules", "A", "index.js">>) > MAX_PATH_LENGTH
          /\ IsCopyOf(fs, <<"node_modules", "A", "lib.js">>, "/app/node_modules/X/node_modules/A/lib.js")
          /\ fs[<<"node_modules", "A", "package.json">>].kind = "manifest"

\* C10: the failure of a single symlink creation, a target path longer than 260
\* characters included, is caught for dependency links and top-level links alike:
\* the remaining links are attempted and the run resolves.
C10_LinkFailureNotFatal ==
    pc = "done" =>
        /\ outcome = "resolved"
        /\ \A i \in 1..Len(linkState) : linkState[i] # "pending"
        /\ \A i \in 1..Len(topState) : topState[i] # "pending"

\* C15: no symlink creation starts before every per-package copy task has
\* settled, and no top-level symlink creation starts before every dependency
\* symlink creation has settled.
C15_PhasesInOrder ==
    run = 1 =>
        /\ (pc \in {"deplinks", "toplinks", "done"} \/ linkState # <<>>
               \/ \E q \in DOMAIN fs : IsLink(fs, q)) =>
              /\ \A i \in 1..Len(copyTasks) : copyTasks[i].state = "done"
              /\ \A f \in DOMAIN fileState : fileState[f] \in {"copied", "skipped", "failed"}
        /\ (pc \in {"toplinks", "done"} \/ topState # <<>>
               \/ \E i \in 1..Len(tracedFiles) : IsLink(fs, TopLevelDir(tracedFiles[i].pkgName))) =>
              \A i \in 1..Len(linkState) : linkState[i] \in {"created", "skipped", "failed"}

C15_Witness ==
    /\ run = 1 /\ pc = "toplinks"
    /\ Len(copyTasks) >= 3
    /\ \E i \in 1..Len(linkState) : linkState[i] = "created"
    /\ \E i \in 1..Len(topState) : topState[i] = "created"

\* the file and manifest entries of the tree that belong to package name at version
EntriesOf(tree, tf, name, version) ==
    { q \in DOMAIN tree :
        \/ tree[q].kind = "file" /\ tree[q].src \in Range(RegistryFiles(tf, name, version))
        \/ tree[q].kind = "manifest" /\ tree[q].json.name = name
                                     /\ tree[q].json.version = version }

\* C18: each traced (name, version) pair is copied into exactly one directory,
\* node_modules/<name> when the name has one traced version and
\* .versions/<name>@<version> otherwise; the top-level node_modules/<name> of a
\* multi-version package is only ever a symlink.
C18_OneCopyPerVersion ==
    run = 1 =>
        \A i \in 1..Len(tracedFiles) :
            LET n == tracedFiles[i].pkgName
                v == tracedFiles[i].pkgVersion
                home == IF Len(RegistryVersions(tracedFiles, n)) = 1
                        THEN nodeModulesPath \o n
                        ELSE versionsPath \o Front(n) \o << Last(n) \o "@" \o Str(v) >>
            IN  /\ \A q \in EntriesOf(fs, tracedFiles, n, v) : IsPrefix(home, q) /\ q # home
                /\ pc = "done" => home \in DOMAIN fs /\ fs[home].kind = "dir"
                /\ Len(RegistryVersions(tracedFiles, n)) > 1 =>
                      /\ nodeModulesPath \o n \in DOMAIN fs => IsLink(fs, nodeModulesPath \o n)
                      /\ \A q \in DOMAIN fs : ~(IsPrefix(nodeModulesPath \o n, q) /\ q # nodeModulesPath \o n)

C18_Witness ==
    /\ run = 1 /\ pc = "done"
    /\ IsLink(fs, <<"node_modules", "A">>)
    /\ IsCopyOf(fs, <<"node_modules", ".versions", "A@2.0.0", "index.js">>,
                "/app/node_modules/Y/node_modules/A/index.js")
    /\ IsCopyOf(fs, <<"node_modules", ".versions", "A@1.0.0", "index.js">>,
                "/app/node_modules/A/index.js")
    /\ IsCopyOf(fs, <<"node_modules", "@s", "c", "lib", "main.js">>,
                "/app/node_modules/@s/c/lib/main.js")

\* C19: two traced cross-package edges that map to the same link target require
\* the same version of the dependency, so the one link created for the target
\* serves every edge that produced it, whatever the order of the edges.
C19_SameTargetSameVersion ==
    pc \in {"deplinks", "toplinks", "done"} /\ Deviations(env) = 0 =>
        LET edges == { e \in Range(ParentEdges(tracedFiles)) : NeedsLink(tracedFiles, e) }
        IN  /\ \A e1, e2 \in edges :
                  LinkTarget(tracedFiles, e1) = LinkTarget(tracedFiles, e2)
                      => e1.file.pkgVersion = e2.file.pkgVersion
            /\ \A e \in edges : \E i \in 1..Len(symlinkTasks) :
                  /\ symlinkTasks[i].target = LinkTarget(tracedFiles, e)
                  /\ symlinkTasks[i].source = LinkSource(tracedFiles, e)

\* the packageJson the traced file at path had when the trace result was built
OriginalPkgJson(path) ==
    Pool[CHOOSE k \in 1..Len(Pool) : Pool[k].path = path].packageJson

\* C20: copyPackageVersion writes destDir/package.json only after all file copies
\* of the batch have settled, so the final destDir/package.json is the rewritten
\* manifest, also when the package's own package.json is one of the copied files.
C20_ManifestWrittenLast ==
    run = 1 =>
        \A i \in 1..Len(copyTasks) :
            LET t == copyTasks[i]
                manifest == t.destDir \o <<"package.json">>
            IN  /\ (t.state = "done"
                       \/ (manifest \in DOMAIN fs /\ fs[manifest].kind = "manifest")) =>
                      \A f \in Range(t.files) : fileState[f] \in {"copied", "skipped", "failed"}
                /\ pc = "done" /\ ~env.writeFails =>
                      /\ manifest \in DOMAIN fs
                      /\ fs[manifest] = [kind |-> "manifest",
                                         json |-> [OriginalPkgJson(t.files[1]) EXCEPT
                                             !.exports = applyProductionCondition(@)]]

C20_Witness ==
    /\ run = 1 /\ pc = "done"
    /\ {"/app/node_modules/@s/c/package.json", "/app/node_modules/@s/c/lib/main.js"}
           \subseteq DOMAIN fileState
    /\ fileState["/app/node_modules/@s/c/package.json"] = "copied"
    /\ fileState["/app/node_modules/@s/c/lib/main.js"] = "copied"
    /\ fs[<<"node_modules", "@s", "c", "package.json">>].kind = "manifest"

-----------------------------------------------------------------------------
(* Claims about standaloner() and bundle() (checked under SpecStandaloner) *)

\* the chunk files of the builds made so far, in build order, below dir
ChunkPathsOf(builds, dir) ==
    LET RECURSIVE Go(_)
        Go(k) == IF k > Len(builds) THEN <<>>
                 ELSE [i \in 1..Len(builds[k].output) |-> dir \o "/" \o builds[k].output[i]]
                          \o Go(k + 1)
    IN  Go(1)

\* C13: with options.bundle not false, trace is called only after bundle() has
\* resolved (every build done) and its roots are the bundle's output file paths;
\* with options.bundle false no build is made and the roots are the resolved
\* input paths; with options.trace false trace is never called; an absent bundle
\* or trace option means enabled.
C13_BundleThenTrace ==
    /\ Len(sTrace) <= 1
    /\ sOpts.trace = "false" => sTrace = <<>>
    /\ sTrace # <<>> =>
          IF sOpts.bundle.kind = "false"
          THEN /\ sBuilds = <<>>
               /\ sTrace[1].input =
                      [i \in 1..Len(sOpts.input.entries) |-> "/cwd/" \o sOpts.input.entries[i].path]
          ELSE /\ sBuilds # <<>>
               /\ sQueue = <<>>
               /\ \A k \in 1..Len(sBuilds) : sBuilds[k].state = "done"
               /\ sBundle.state = "resolved"
               /\ sTrace[1].input =
                      ChunkPathsOf(sBuilds, IF sOpts.bundle.kind = "object" /\ sOpts.bundle.dir # "undefined"
                                            THEN sOpts.bundle.dir ELSE "/cwd/src/dist")
    /\ sPc = "done" =>
          /\ sOpts.trace # "false" => Len(sTrace) = 1
          /\ sOpts.bundle.kind # "false" => sBuilds # <<>>

C13_Witness ==
    /\ sPc = "done"
    /\ sOpts.bundle.kind = "undefined"
    /\ sOpts.trace = "undefined"
    /\ Len(sOpts.input.entries) = 2
    /\ Len(sTrace) = 1
    /\ sTrace[1].input = <<"/cwd/src/dist/e1.mjs", "/cwd/src/dist/e2.mjs">>

\* C14: in isolated mode with an object input of N > 1 entries bundle() makes N
\* builds, the k-th with the k-th entry alone as its input, never more than
\* max(1, ceil(cpuCount / 2)) of them running at once, and resolves to the outputs
\* of all N; otherwise it makes one build with the whole input.
C14_IsolatedBuilds ==
    LET entries  == sOpts.input.entries
        N        == Len(entries)
        isolated == /\ sOpts.bundle.kind = "object"
                    /\ sOpts.bundle.isolated
                    /\ sOpts.input.kind = "object"
                    /\ N > 1
        cap      == IF sOpts.cpus <= 2 THEN 1
                    ELSE IF sOpts.cpus % 2 = 0 THEN sOpts.cpus \div 2
                    ELSE sOpts.cpus \div 2 + 1
    IN  /\ Cardinality({ k \in 1..Len(sBuilds) : sBuilds[k].state = "running" }) <= cap
        /\ IF isolated
           THEN /\ Len(sBuilds) <= N
                /\ \A k \in 1..Len(sBuilds) : sBuilds[k].input = <<entries[k]>>
                /\ sBundle.state = "resolved" =>
                      /\ Len(sBuilds) = N
                      /\ sBundle.output = [k \in 1..N |-> entries[k].name \o ".mjs"]
           ELSE /\ Len(sBuilds) <= 1
                /\ \A k \in 1..Len(sBuilds) : sBuilds[k].input = entries
                /\ sBundle.state = "resolved" =>
                      /\ Len(sBuilds) = 1
                      /\ sBundle.output = sBuilds[1].output

C14_Witness ==
    /\ sBundle.state = "resolved"
    /\ sOpts.bundle.isolated
    /\ sOpts.input.kind = "object"
    /\ sOpts.cpus = 4
    /\ Len(sBuilds) = 3
    /\ sBundle.output = <<"e1.mjs", "e2.mjs", "e3.mjs">>

-----------------------------------------------------------------------------
(* Claims about the batch loop of traceProjectFiles (checked under SpecBatch) *)

\* C16: never more than 100 resolutions are in flight; whatever is in flight
\* belongs to the batch after position i, so a batch is issued only when the
\* batches before it have settled; no file is resolved twice, and when the loop
\* ends every file has been resolved once and nothing is in flight.
C16_BatchesOfHundred ==
    /\ inFlight <= 100
    /\ inFlight <= Cardinality({ f \in 1..batchLen : f > batchI /\ f <= batchI + 100 /\ issued[f] = 1 })
    /\ \A f \in 1..batchLen :
          /\ issued[f] <= 1
          /\ f > batchI + 100 => issued[f] = 0
          /\ f <= batchI => issued[f] = 1
    /\ batchPc = "done" => inFlight = 0 /\ \A f \in 1..batchLen : issued[f] = 1

C16_Witness ==
    /\ batchLen = 205
    /\ batchI = 200
    /\ batchPc = "await"
    /\ inFlight = 5
    /\ \A f \in 1..batchLen : issued[f] = 1

-----------------------------------------------------------------------------
(* Claims about traceProjectFiles and the resolvers (checked under SpecTrace) *)

\* where the listed file is on disk, symlinks followed
RealLocation(file) ==
    IF file = ListedFile.ly THEN <<"/", "r", "/", "w", "/", "q", "/", "y">>
    ELSE <<"/", "r", "/", "w", "/">> \o file

\* the listed files that lie in a package with a name
InNamedPackage == {ListedFile.a, ListedFile.px, ListedFile.qy, ListedFile.ly, ListedFile.mi, ListedFile.do, ListedFile.dxz}

\* C11: the file u/y, outside node_modules and below u/package.json which has no
\* name, resolves to null and never has an entry in the traced-files map (so no
\* registry bucket and no copy can come from it: every entry of the map has a
\* package name), and the run goes on: at the end every other file that passed
\* the filter and lies in a named package has its entry.
C11_UnnamedWorkspaceSkipped ==
    /\ \A k \in 1..Len(tracedFilesMap) :
          /\ tracedFilesMap[k].path # <<"/", "r", "/", "w", "/", "u", "/", "y">>
          /\ tracedFilesMap[k].pkgName # <<>>
          /\ tracedFilesMap[k].pkgPath # <<"u">>
    /\ \A j \in 1..Len(results) :
          filesToProcess[tI + j] = ListedFile.uy => results[j].t \in {"pending", "null"}
    /\ tPc = "done" =>
          \A i \in 1..Len(filesToProcess) :
              filesToProcess[i] \in InNamedPackage =>
                  \E k \in 1..Len(tracedFilesMap) :
                      tracedFilesMap[k].path = RealLocation(filesToProcess[i])

C11_Witness ==
    /\ tPc = "done"
    /\ filesToProcess = <<ListedFile.px, ListedFile.uy, ListedFile.mi>>
    /\ Len(tracedFilesMap) = 2
    /\ tracedFilesMap[1].pkgName = <<"w", "p">>
    /\ tracedFilesMap[2].pkgName = <<"m">>

\* dir is abs or a directory above it
LiesUnder(abs, dir) == IsPrefix(Segments(dir), Segments(abs))

\* C12: no listed file that lies under outDir has an entry in the traced-files
\* map, wherever outDir is.
C12_NothingUnderOutDir ==
    \A i \in 1..Len(fileList) :
        LiesUnder(PathJoin(baseDir, fileList[i]), outDir) =>
            \A k \in 1..Len(tracedFilesMap) :
                tracedFilesMap[k].path # RealLocation(fileList[i])

\* C17: the map has one entry per canonical path, and it is the TracedFile of
\* the first listed file that resolves to that path: its package and its parents.
C17_FirstResolutionWins ==
    tPc = "done" =>
        /\ \A k1, k2 \in 1..Len(tracedFilesMap) :
              tracedFilesMap[k1].path = tracedFilesMap[k2].path => k1 = k2
        /\ \A k \in 1..Len(tracedFilesMap) :
              LET same  == { i \in 1..Len(filesToProcess) :
                                /\ processSingleFile(filesToProcess[i]) # TracedNull
                                /\ processSingleFile(filesToProcess[i]).path = tracedFilesMap[k].path }
                  first == CHOOSE i \in same : \A j \in same : i <= j
              IN  /\ same # {}
                  /\ tracedFilesMap[k] = processSingleFile(filesToProcess[first])

\* C30: a listed file that the filter drops, and that is neither an initial file
\* nor below usr/, lies inside outDir; so dx/z is kept when outDir is d, and
\* nothing is dropped for the outDir filter when no file is inside outDir.
C30_FilterDropsOnlyInside ==
    tPc # "start" =>
        \A i \in 1..Len(fileList) :
            /\ fileList[i] \notin Range(filesToProcess)
            /\ fileList[i] \notin {ListedFile.e, ListedFile.usrk}
            => LiesUnder(PathJoin(baseDir, fileList[i]), outDir)

\* no object of the exports tree e has a "production" key whose value is not null
RECURSIVE NoProduction(_)
NoProduction(e) ==
    e.t = "obj" =>
        /\ "production" \in DOMAIN e.m => e.m["production"].t = "null"
        /\ \A k \in DOMAIN e.m : NoProduction(e.m[k])

\* C29: once applyProductionCondition has returned, no object reachable in the
\* exports tree has a "production" key with a non-null value.
C29_NoProductionLeft ==
    applied >= 1 => NoProduction(exportsObj)

-----------------------------------------------------------------------------
(* Claims about resolveNodeModulesPackage (checked under SpecResolve) *)

\* the positions of the node_modules segments of segs that a segment follows
NodeModulesAt(segs) == { j \in 1..(Len(segs) - 1) : segs[j] = NodeModulesChars }

\* how many segments the package name takes from position j on
NameSegments(segs, j) == IF segs[j][1] = "@" THEN 2 ELSE 1

\* C26: for a path whose last node_modules segment is followed by a whole package
\* name, the name is the one or two segments after that segment, the package root
\* is the path up to and including the name, and the subpath is the rest, without
\* a leading separator, so that root and subpath join to the path again.
C26_LastNodeModulesSegment ==
    LET segs == Split(resolveArg, "/")
        nms  == NodeModulesAt(segs)
        last == CHOOSE j \in nms : \A i \in nms : i <= j
        n    == NameSegments(segs, last + 1)
        stop == last + n
    IN  /\ resolveOut.t # "none"
        /\ nms # {}
        /\ stop <= Len(segs)
        => /\ resolveOut.t = "info"
           /\ resolveOut.pkgName = JoinSlash(SubSeq(segs, last + 1, stop))
           /\ resolveOut.pkgPath = JoinSlash(SubSeq(segs, 1, stop))
           /\ resolveOut.subpath = JoinSlash(SubSeq(segs, stop + 1, Len(segs)))
           /\ (resolveOut.subpath = <<>> \/ resolveOut.subpath[1] # "/")
           /\ PathJoin(resolveOut.pkgPath, resolveOut.subpath) = resolveArg

\* C21: whatever has been copied and written, every TracedFile still has the
\* packageJson trace resolution gave it, exports included.
C21_TracedFilesImmutable ==
    run = 1 =>
        \A k \in 1..Len(tracedFiles) :
            tracedFiles[k].packageJson = OriginalPkgJson(tracedFiles[k].path)

-----------------------------------------------------------------------------
(* Further claims about the version sort (checked under SpecVersions) *)

\* the version string that comes first when the versions are met in the order perm
PromotedIn(perm) ==
    SortEntries([i \in 1..Len(vlist) |-> <<FormatVersion(vlist[perm[i]]), perm[i]>>])[1][1]

\* C27: for distinct version strings, the version that is first after the sort
\* (the one promoted to the top level) is the same in whatever order the versions
\* were met, also when two of them compare equal.
C27_PromotionIgnoresOrder ==
    /\ vout.op = "sort"
    /\ \A i, j \in 1..Len(vlist) : i # j => FormatVersion(vlist[i]) # FormatVersion(vlist[j])
    => \A perm \in Permutations(1..Len(vlist)) :
           PromotedIn(perm) = FormatVersion(vlist[vout.r[1]])

-----------------------------------------------------------------------------
(* Claims about incremental runs (checked under SpecIncremental) *)

\* C28: when the earlier run left node_modules/<name> as a real directory (the
\* package had one traced version) and the later run into the same output
\* directory traces the package in several versions, the later run ends with
\* node_modules/<name> a symlink resolving to .versions/<name>@<v>, no traced
\* version being newer than v.
C28_LaterRunPromotesNewest ==
    pc = "done" /\ run = 2 =>
        \A n \in Range(RegistryNames(tracedFiles)) :
            /\ IsMultiVersion(tracedFiles, n)
            /\ TopLevelDir(n) \in DOMAIN firstTree
            /\ firstTree[TopLevelDir(n)].kind = "dir"
            => /\ IsLink(fs, TopLevelDir(n))
               /\ \E v \in Range(RegistryVersions(tracedFiles, n)) :
                     /\ LinkDest(fs, TopLevelDir(n)) = VersionDir(n, v)
                     /\ \A w \in Range(RegistryVersions(tracedFiles, n)) : ~NewerThan(w, v)

-----------------------------------------------------------------------------
(* Claims about bundle() and cleanup() (checked under SpecBundle) *)

\* the path of every file some build of the call wrote or will write
AllBuildOutputs ==
    { OutputDir \o <<"/">> \o bOptions.input[i].name \o ext :
        i \in 1..Len(bOptions.input),
        ext \in {MjsExt} \cup (IF bOptions.sourcemap THEN {MjsExt \o MapExt} ELSE {}) }

\* C24: bundle() with cleanup enabled deletes no file before every entry's build
\* has completed, and never deletes an output file of any of the builds.
C24_CleanupSparesOutputs ==
    /\ bDeleted # {} =>
          /\ bOptions.cleanup
          /\ Len(bBuilds) = (IF bOptions.isolated THEN Len(bOptions.input) ELSE 1)
          /\ \A k \in 1..Len(bBuilds) : bBuilds[k].state = "done"
    /\ bDeleted \cap AllBuildOutputs = {}
    /\ bPc = "resolved" => AllBuildOutputs \subseteq bDisk.files

C24_Witness ==
    /\ bPc = "resolved"
    /\ bOptions.cleanup /\ bOptions.isolated /\ bOptions.sourcemap
    /\ Len(bBuilds) = 3
    /\ <<"/", "o", "/", "a", ".", "j", "s">> \in bDeleted
    /\ <<"/", "o", "/", "a", ".", "j", "s", ".", "m", "a", "p">> \in bDeleted
    /\ \E k \in 1..3 : bBuilds[k].input[1].path = <<"/", "o", "/", "a", ".", "m", "j", "s">>
    /\ <<"/", "o", "/", "a", ".", "m", "j", "s">> \in bDisk.files

-----------------------------------------------------------------------------
(* Claims about getUniqueAssetName (checked under SpecNames) *)

\* C25: over any sequence of getUniqueAssetName calls on one emittedNames set the
\* returned names are pairwise distinct, every returned name is in the set after
\* its call, and the set never loses a name.
C25_NamesUnique ==
    /\ [](/\ \A i, j \in 1..Len(rReturned) : i # j => rReturned[i] # rReturned[j]
          /\ Range(rReturned) \subseteq rNames)
    /\ [][/\ rNames \subseteq rNames'
          /\ Len(rReturned') = Len(rReturned) + 1 => Last(rReturned') \in rNames']_vars

C25_Witness ==
    /\ Len(rReturned) = 4
    /\ rReturned[1] = <<"f", ".", "t">>
    /\ rReturned[2] = <<"f", "_", "1", ".", "t">>
    /\ rReturned[3] = <<"f", "_", "2", ".", "t">>
    /\ rReturned[4] = <<"f", "_", "1", "_", "1", ".", "t">>

-----------------------------------------------------------------------------
(* Claims about relocatePlugin (checked under SpecRelocate) *)

\* C22: within one plugin instance every absolute asset path is emitted at most
\* once, whatever the order in which the per-reference tasks settle and across
\* all modules the instance transforms, and every rewritten reference to a path
\* carries the name the path was first emitted under.
C22_EmittedOnce ==
    /\ \A i, j \in 1..Len(rEmitted) : i # j => rEmitted[i].path # rEmitted[j].path
    /\ \A i \in 1..Len(rTasks) :
          rTasks[i].pc = "done" =>
              \E k \in 1..Len(rEmitted) :
                  /\ rEmitted[k].path = rTasks[i].path
                  /\ rEmitted[k].fileName = rTasks[i].name
                  /\ \A m \in 1..(k - 1) : rEmitted[m].path # rTasks[i].path

-----------------------------------------------------------------------------
(* Claims about assetRelocatorPlugin (checked under SpecAssets) *)

\* the reference a chunk makes to an emitted file: its path relative to the
\* chunk's directory, with a leading './', as a JSON string
ReferenceTo(chunkFileName, fileName) ==
    <<"\"", ".", "/">>
        \o (IF Includes(chunkFileName, <<"/">>) THEN <<".", ".", "/">> ELSE <<>>)
        \o fileName \o <<"\"">>

\* C23: an asset recorded during load or transform is emitted only if its
\* placeholder occurs in the code of a rendered chunk; and the final code of a
\* rendered chunk holds no placeholder whose asset info exists: each is replaced
\* by a reference to the emitted file of its asset.
C23_PlaceholdersResolved ==
    /\ \A k \in 1..Len(rEmitted) :
          \E c \in 1..Len(aChunks), id \in DOMAIN aInfo :
              /\ aInfo[id].absolutePath = rEmitted[k].path
              /\ Includes(aChunks[c].code, Placeholder(id))
    /\ \A c \in 1..Len(aChunks), id \in DOMAIN aInfo :
          Includes(aChunks[c].code, Placeholder(id)) =>
              /\ ~Includes(aChunks[c].final, Placeholder(id))
              /\ \E k \in 1..Len(rEmitted) :
                    /\ rEmitted[k].path = aInfo[id].absolutePath
                    /\ StartsWith(rEmitted[k].fileName, AssetOutputDir \o <<"/">>)
                    /\ Includes(aChunks[c].final,
                                ReferenceTo(aChunks[c].fileName, rEmitted[k].fileName))

C23_Witness ==
    /\ Len(aChunks) = 2
    /\ Cardinality(DOMAIN aInfo) = 3
    /\ Len(rEmitted) = 1
    /\ rEmitted[1].path = <<"/", "d", "/", "f", ".", "t">>
    /\ \E id1, id2 \in DOMAIN aInfo :
          /\ id1 # id2
          /\ aInfo[id1].type = "url" /\ aInfo[id2].type = "fs"
          /\ Includes(aChunks[2].code, Placeholder(id1))
          /\ Includes(aChunks[2].code, Placeholder(id2))
          /\ ~Includes(aChunks[2].final, PlaceholderPrefix)
    /\ \E id \in DOMAIN aInfo :
          /\ aInfo[id].type = "require"
          /\ \A c \in 1..2 : ~Includes(aChunks[c].code, Placeholder(id))

=============================================================================
